---- MODULE Spec2Model ----
(***************************************************************************)
(* A model of the floorplan editor: the coordinate engine, the snapping    *)
(* helpers, the handle transforms, the wall finder and the pointer / key   *)
(* handlers of the canvas and of the page that owns the editor state.      *)
(*                                                                         *)
(* Numbers.  The program computes in JavaScript numbers.  The model        *)
(* computes in exact rationals <<n, d>> (d > 0, lowest terms), extended    *)
(* with the three non-finite values of IEEE arithmetic: <<1, 0>> is        *)
(* +Infinity, <<-1, 0>> is -Infinity and <<0, 0>> is NaN.  Rounding error  *)
(* of finite results is not modelled; division by zero is.                 *)
(***************************************************************************)
EXTENDS Integers, Sequences, FiniteSets, TLC

VARIABLES
  (* Floorplan.tsx: the page's state hooks *)
  shapes, doors, viewTransform, selectedShapeId, selectedDoorId,
  activeTool, snapEnabled, doorPlacementMode, currentStep, completedSteps,
  (* FloorplanCanvas.tsx: the canvas' state hooks *)
  canvasSize, isDrawing, currentPoints, snapPoint, previewPoint,
  dragState, doorDragState, isPanning, panStart, spacePressed,
  hoveredHandle, hoveredShapeId, hoveredDoorId, mousePosition,
  liveMeasurement,
  (* the save pipeline: the page's project id hook, the browser's pending *)
  (* timeouts and the id of the timeout the auto-save effect's cleanup    *)
  (* will clear (0 when it has none), the numbers of the HTTP requests in *)
  (* flight, the responses in flight, the server's project map            *)
  projectId, timeouts, cleanup, requests, responses, projects,
  (* observation of the run: the notification the last handler raised,   *)
  (* the last event handled, the next fresh id, the rotation the dragged *)
  (* shape had when its drag began, the events handled so far            *)
  toast, lastEvent, nextId, dragStartRotation, nEvents,
  (* the requests issued so far, each with what became of it, the number  *)
  (* of timeouts set so far, the milliseconds since the last change to    *)
  (* shapes, viewTransform or currentStep, counted up to SaveDelay         *)
  issued, timeoutsSet, idle,
  (* the tools that were active when the points of currentPoints were     *)
  (* placed                                                               *)
  placedWith,
  (* the argument and result of the pure function under test *)
  probe

vars == <<shapes, doors, viewTransform, selectedShapeId, selectedDoorId,
          activeTool, snapEnabled, doorPlacementMode, currentStep,
          completedSteps,
          canvasSize, isDrawing, currentPoints, snapPoint, previewPoint,
          dragState, doorDragState, isPanning, panStart, spacePressed,
          hoveredHandle, hoveredShapeId, hoveredDoorId, mousePosition,
          liveMeasurement,
          projectId, timeouts, cleanup, requests, responses, projects,
          toast, lastEvent, nextId, dragStartRotation, nEvents,
          issued, timeoutsSet, idle, placedWith, probe>>

\* null of an object, null of an id or a handle name, undefined of a number
NULL      == [null |-> TRUE]
NONE      == "null"
UNDEFINED == <<>>

(***************************************************************************)
(* JavaScript numbers as extended rationals                                *)
(***************************************************************************)
RECURSIVE GCD(_, _)
GCD(a, b) == IF b = 0 THEN a ELSE GCD(b, a % b)

IAbs(n) == IF n < 0 THEN -n ELSE n
ISign(n) == IF n < 0 THEN -1 ELSE IF n > 0 THEN 1 ELSE 0
\* the gcd used to cancel, 1 when both are 0
Cancel(a, b) == IF a = 0 /\ b = 0 THEN 1 ELSE GCD(IAbs(a), IAbs(b))

\* n / d with the common factor g taken out and the sign in the numerator
Reduced(n, d, g) == IF d < 0 THEN <<-(n \div g), -(d \div g)>>
                             ELSE <<n \div g, d \div g>>
Norm(n, d) == IF d = 0 THEN <<ISign(n), 0>> ELSE Reduced(n, d, Cancel(n, d))

R(n, d)  == Norm(n, d)
I(n)     == <<n, 1>>
NaN      == <<0, 0>>
PosInf   == <<1, 0>>
NegInf   == <<-1, 0>>
IsFinite(a) == a[2] # 0
IsNaN(a)    == a = NaN

Neg(a) == <<-a[1], a[2]>>

\* a + b over the common denominator l
SumOver(a, b, l) == Norm(a[1] * (l \div a[2]) + b[1] * (l \div b[2]), l)
Add(a, b) ==
  IF a[2] # 0 /\ b[2] # 0 THEN SumOver(a, b, (a[2] \div GCD(a[2], b[2])) * b[2])
  ELSE IF a = NaN \/ b = NaN THEN NaN
  ELSE IF a[2] = 0 /\ b[2] = 0 THEN (IF a = b THEN a ELSE NaN)
  ELSE IF a[2] = 0 THEN a
  ELSE b

Sub(a, b) == Add(a, Neg(b))

\* a * b with the cross factors g1 of a[1], b[2] and g2 of b[1], a[2] taken out
ProductBy(a, b, g1, g2) ==
  Norm((a[1] \div g1) * (b[1] \div g2), (a[2] \div g2) * (b[2] \div g1))
Mul(a, b) == ProductBy(a, b, Cancel(a[1], b[2]), Cancel(b[1], a[2]))

Recip(a) == IF a[1] < 0 THEN <<-a[2], -a[1]>> ELSE <<a[2], a[1]>>
Div(a, b) == Mul(a, Recip(b))

\* the sign of a finite or infinite number, 0 for NaN; comparisons with NaN
\* are false
Sgn(a) == ISign(a[1])
Lt(a, b) == Sub(a, b)[1] < 0
Le(a, b) == IF a = b THEN a # NaN ELSE Sub(a, b)[1] < 0
Gt(a, b) == Lt(b, a)
Ge(a, b) == Le(b, a)

\* Math.abs, Math.sign, Math.min, Math.max, Math.round (NaN goes through)
MathAbs(a)  == <<IAbs(a[1]), a[2]>>
MathSign(a) == IF a = NaN THEN NaN ELSE I(ISign(a[1]))
MathMin2(a, b) == IF a = NaN \/ b = NaN THEN NaN ELSE IF Sub(a, b)[1] <= 0 THEN a ELSE b
MathMax2(a, b) == IF a = NaN \/ b = NaN THEN NaN ELSE IF Sub(a, b)[1] <= 0 THEN b ELSE a
\* floor(a + 1/2)
FloorOf(h) == I(h[1] \div h[2])
MathRound(a) == IF a[2] = 0 THEN a ELSE FloorOf(Add(a, <<1, 2>>))

RECURSIVE MinOf(_), MaxOf(_)
\* Math.min(...xs) and Math.max(...xs): Infinity and -Infinity of no numbers
MinOf(xs) == IF xs = <<>> THEN PosInf ELSE MathMin2(xs[1], MinOf(Tail(xs)))
MaxOf(xs) == IF xs = <<>> THEN NegInf ELSE MathMax2(xs[1], MaxOf(Tail(xs)))

Pt(x, y) == [x |-> x, y |-> y]
Xs(vs) == [i \in 1..Len(vs) |-> vs[i].x]
Ys(vs) == [i \in 1..Len(vs) |-> vs[i].y]
IsFinitePoint(p) == IsFinite(p.x) /\ IsFinite(p.y)

(***************************************************************************)
(* Math.sqrt(dx*dx + dy*dy) is kept as the pair (|dx|, |dy|) it is the     *)
(* root of: the program only compares such roots with a radius or with     *)
(* each other, and those comparisons are decided exactly on the squares.   *)
(***************************************************************************)
Hypot(dx, dy) == [dx |-> MathAbs(dx), dy |-> MathAbs(dy)]
HypotSq(h) == Add(Mul(h.dx, h.dx), Mul(h.dy, h.dy))
\* sqrt(dx^2+dy^2) <= r: decided without squaring when one leg exceeds r
\* or both legs together stay within r
HypotLe(h, r) ==
  IF IsNaN(h.dx) \/ IsNaN(h.dy) \/ IsNaN(r) THEN FALSE
  ELSE IF Gt(h.dx, r) \/ Gt(h.dy, r) THEN FALSE
  ELSE IF Le(Add(h.dx, h.dy), r) THEN TRUE
  ELSE Le(HypotSq(h), Mul(r, r))
HypotLt(h, r) ==
  IF IsNaN(h.dx) \/ IsNaN(h.dy) \/ IsNaN(r) THEN FALSE
  ELSE IF Ge(h.dx, r) \/ Ge(h.dy, r) THEN FALSE
  ELSE IF Lt(Add(h.dx, h.dy), r) THEN TRUE
  ELSE Lt(HypotSq(h), Mul(r, r))
\* sqrt(a) < sqrt(b)
HypotLtHypot(h1, h2) == Lt(HypotSq(h1), HypotSq(h2))
HypotIsZero(h) == h.dx = I(0) /\ h.dy = I(0)

(***************************************************************************)
(* shared/schema.ts: the physical constants                                *)
(***************************************************************************)
DEFAULT_EDITING_DPI == 96
SNAP_THRESHOLD_FT  == R(1, 2)
GRID_SPACING_FT    == I(5)
MM_TO_INCHES       == Div(I(1), R(254, 10))
A2_SHEET_WIDTH_MM  == 594
A2_SHEET_HEIGHT_MM == 420
A2_WIDTH_FT        == R(1915, 10)
A2_HEIGHT_FT       == Mul(R(1915, 10), Div(I(A2_SHEET_WIDTH_MM), I(A2_SHEET_HEIGHT_MM)))
\* the scale the export engine imports; the schema that declares it
\* gives 3.1
PLOT_SCALE         == R(31, 10)
ExportDPI          == {96, 150, 300, 600}

(***************************************************************************)
(* client/src/lib/coordinate-math.ts                                       *)
(***************************************************************************)
pixelsPerFoot(dpi) ==
  LET paperHeightInches == Mul(I(A2_SHEET_HEIGHT_MM), MM_TO_INCHES)
      paperHeightPixels == Mul(paperHeightInches, I(dpi))
  IN  Div(paperHeightPixels, A2_HEIGHT_FT)

worldToCanvas(point, vt, editingDPI, canvasWidth, canvasHeight) ==
  LET canvasCenterX == Div(canvasWidth, I(2))
      canvasCenterY == Div(canvasHeight, I(2))
      offsetX == Sub(point.x, Div(A2_WIDTH_FT, I(2)))
      offsetY == Sub(point.y, Div(A2_HEIGHT_FT, I(2)))
      at(ppf) ==
        Pt(Add(Add(canvasCenterX, Mul(Mul(offsetX, ppf), vt.zoom)), vt.panX),
           Add(Add(canvasCenterY, Mul(Mul(offsetY, ppf), vt.zoom)), vt.panY))
  IN  at(pixelsPerFoot(editingDPI))

\* canvasToWorld with the pan left in: the inverse a slip would give
canvasToWorld_PanKept(point, vt, editingDPI, canvasWidth, canvasHeight) ==
  LET at(scale) ==
        Pt(Add(Div(Sub(point.x, Div(canvasWidth, I(2))), scale), Div(A2_WIDTH_FT, I(2))),
           Add(Div(Sub(point.y, Div(canvasHeight, I(2))), scale), Div(A2_HEIGHT_FT, I(2))))
  IN  at(Mul(pixelsPerFoot(editingDPI), vt.zoom))

canvasToWorld(point, vt, editingDPI, canvasWidth, canvasHeight) ==
  LET canvasCenterX == Div(canvasWidth, I(2))
      canvasCenterY == Div(canvasHeight, I(2))
      \* scale: ppf * viewTransform.zoom
      at(scale) ==
        Pt(Add(Div(Sub(Sub(point.x, canvasCenterX), vt.panX), scale),
               Div(A2_WIDTH_FT, I(2))),
           Add(Div(Sub(Sub(point.y, canvasCenterY), vt.panY), scale),
               Div(A2_HEIGHT_FT, I(2))))
  IN  at(Mul(pixelsPerFoot(editingDPI), vt.zoom))

distance(p1, p2) == Hypot(Sub(p2.x, p1.x), Sub(p2.y, p1.y))

snapToGrid(point, gridSize) ==
  Pt(Mul(MathRound(Div(point.x, gridSize)), gridSize),
     Mul(MathRound(Div(point.y, gridSize)), gridSize))

RECURSIVE findSnapTarget(_, _, _)
findSnapTarget(point, allVertices, threshold) ==
  IF allVertices = <<>> THEN NULL
  ELSE IF HypotLe(distance(point, Head(allVertices)), threshold)
       THEN Head(allVertices)
       ELSE findSnapTarget(point, Tail(allVertices), threshold)

(***************************************************************************)
(* server/export-engine.ts                                                 *)
(***************************************************************************)
exportPixelsPerFoot(dpi) == Div(I(dpi), PLOT_SCALE)

(***************************************************************************)
(* Math.atan2, Math.cos, Math.sin and Math.sqrt where their values are     *)
(* rational: the angle of the eight principal directions in degrees, the   *)
(* cosine and sine of whole multiples of 90 degrees, the root of a         *)
(* rational square.  The pointer positions and shapes the model draws from *)
(* keep every angle and root taken within these cases.                     *)
(***************************************************************************)
Atan2Deg(dy, dx) ==
  LET sy == Sgn(dy)
      sx == Sgn(dx)
      diag == MathAbs(dy) = MathAbs(dx)
  IN  CASE sy = 0 /\ sx >= 0 -> I(0)
        [] sy = 0 /\ sx < 0  -> I(180)
        [] sx = 0 /\ sy > 0  -> I(90)
        [] sx = 0 /\ sy < 0  -> I(-90)
        [] diag /\ sx > 0 /\ sy > 0 -> I(45)
        [] diag /\ sx < 0 /\ sy > 0 -> I(135)
        [] diag /\ sx > 0 /\ sy < 0 -> I(-45)
        [] diag /\ sx < 0 /\ sy < 0 -> I(-135)

QuarterTurns(deg) == CHOOSE q \in 0..3 : deg = I(deg[1]) /\ deg[1] % 360 = 90 * q
CosDeg(deg) == I(<<1, 0, -1, 0>>[QuarterTurns(deg) + 1])
SinDeg(deg) == I(<<0, 1, 0, -1>>[QuarterTurns(deg) + 1])

RECURSIVE ISqrtFrom(_, _)
ISqrtFrom(n, k) == IF k * k >= n THEN k ELSE ISqrtFrom(n, k + 1)
\* the root of a rational square
MathSqrt(a) ==
  LET rn == ISqrtFrom(a[1], 0)
      rd == ISqrtFrom(a[2], 0)
  IN  CHOOSE r \in {<<rn, rd>>} : rn * rn = a[1] /\ rd * rd = a[2]

\* Number.prototype.toFixed(2) of a non-negative number, as the number the
\* digits denote
ToFixed2(a) == Div(MathRound(Mul(a, I(100))), I(100))

(***************************************************************************)
(* client/src/lib/transform-utils.ts                                       *)
(***************************************************************************)
calculateRotationAngle(center, currentPoint, startPoint) ==
  LET startAngle   == Atan2Deg(Sub(startPoint.y, center.y), Sub(startPoint.x, center.x))
      currentAngle == Atan2Deg(Sub(currentPoint.y, center.y), Sub(currentPoint.x, center.x))
  IN  Sub(currentAngle, startAngle)

snapAngleToIncrements(angle, increment) ==
  Mul(MathRound(Div(angle, increment)), increment)

(***************************************************************************)
(* client/src/lib/improved-transform.ts                                    *)
(***************************************************************************)
\* a transform that moves every vertex along x only, whatever the handle
improvedTransformVertices_AlongX(originalVertices, handle, startPoint, currentPoint, shiftKey, altKey, shape) ==
  [vertices |-> [i \in 1..Len(originalVertices) |->
                   Pt(Add(originalVertices[i].x, Sub(currentPoint.x, startPoint.x)),
                      originalVertices[i].y)],
   rotationDelta |-> UNDEFINED]

\* the result { vertices, rotationDelta? }; rotationDelta is UNDEFINED when the
\* code leaves it undefined
improvedTransformVertices(originalVertices, handle, startPoint, currentPoint, shiftKey, altKey, shape) ==
  LET xs == Xs(originalVertices)
      ys == Ys(originalVertices)
      minX == MinOf(xs)
      maxX == MaxOf(xs)
      minY == MinOf(ys)
      maxY == MaxOf(ys)
      centerX == Div(Add(minX, maxX), I(2))
      centerY == Div(Add(minY, maxY), I(2))
      delta == Pt(Sub(currentPoint.x, startPoint.x), Sub(currentPoint.y, startPoint.y))
      near(a, b) == Lt(MathAbs(Sub(a, b)), R(1, 10))
      n == Len(originalVertices)
  IN  IF n = 0 THEN [vertices |-> originalVertices, rotationDelta |-> UNDEFINED]
      ELSE IF handle = "center" THEN
        [vertices |-> [i \in 1..n |-> Pt(Add(originalVertices[i].x, delta.x),
                                         Add(originalVertices[i].y, delta.y))],
         rotationDelta |-> UNDEFINED]
      ELSE IF handle = "rotate" THEN
        LET angleDelta == calculateRotationAngle(Pt(centerX, centerY), currentPoint, startPoint)
        IN  [vertices |-> originalVertices,
             rotationDelta |-> IF shiftKey THEN snapAngleToIncrements(angleDelta, I(15))
                                           ELSE angleDelta]
      ELSE IF handle \in {"n", "s"} THEN
        LET targetY == IF handle = "n" THEN minY ELSE maxY
        IN  [vertices |-> [i \in 1..n |->
               IF near(originalVertices[i].y, targetY)
               THEN Pt(originalVertices[i].x, Add(originalVertices[i].y, delta.y))
               ELSE originalVertices[i]],
             rotationDelta |-> UNDEFINED]
      ELSE IF handle \in {"e", "w"} THEN
        LET targetX == IF handle = "e" THEN maxX ELSE minX
        IN  [vertices |-> [i \in 1..n |->
               IF near(originalVertices[i].x, targetX)
               THEN Pt(Add(originalVertices[i].x, delta.x), originalVertices[i].y)
               ELSE originalVertices[i]],
             rotationDelta |-> UNDEFINED]
      ELSE IF handle \in {"nw", "ne", "se", "sw"} THEN
        LET isNorth == handle \in {"nw", "ne"}
            isEast  == handle \in {"ne", "se"}
            targetX == IF isEast THEN maxX ELSE minX
            targetY == IF isNorth THEN minY ELSE maxY
        IN  [vertices |-> [i \in 1..n |->
               Pt(IF near(originalVertices[i].x, targetX)
                  THEN Add(originalVertices[i].x, delta.x) ELSE originalVertices[i].x,
                  IF near(originalVertices[i].y, targetY)
                  THEN Add(originalVertices[i].y, delta.y) ELSE originalVertices[i].y)],
             rotationDelta |-> UNDEFINED]
      ELSE [vertices |-> originalVertices, rotationDelta |-> UNDEFINED]

(***************************************************************************)
(* server/transform-math.ts                                                *)
(***************************************************************************)
applyMidpointScaling(handleType, draggedWorldPoint, initialVertices, isSymmetric) ==
  LET xs == Xs(initialVertices)
      ys == Ys(initialVertices)
      minX == MinOf(xs)
      maxX == MaxOf(xs)
      minY == MinOf(ys)
      maxY == MaxOf(ys)
      near(a, b) == Lt(MathAbs(Sub(a, b)), R(1, 1000))
      n == Len(initialVertices)
      \* the dragged edge goes to the pointer; with isSymmetric the opposite
      \* edge moves by the opposite amount
      moveY(v, edge, other) ==
        IF near(v.y, edge) THEN Pt(v.x, draggedWorldPoint.y)
        ELSE IF isSymmetric /\ near(v.y, other)
             THEN Pt(v.x, Sub(other, Sub(draggedWorldPoint.y, edge)))
             ELSE v
      moveX(v, edge, other) ==
        IF near(v.x, edge) THEN Pt(draggedWorldPoint.x, v.y)
        ELSE IF isSymmetric /\ near(v.x, other)
             THEN Pt(Sub(other, Sub(draggedWorldPoint.x, edge)), v.y)
             ELSE v
  IN  IF n < 2 THEN initialVertices
      ELSE CASE handleType = "n" -> [i \in 1..n |-> moveY(initialVertices[i], minY, maxY)]
             [] handleType = "s" -> [i \in 1..n |-> moveY(initialVertices[i], maxY, minY)]
             [] handleType = "e" -> [i \in 1..n |-> moveX(initialVertices[i], maxX, minX)]
             [] handleType = "w" -> [i \in 1..n |-> moveX(initialVertices[i], minX, maxX)]
             [] OTHER -> initialVertices

applyCornerDrag(handleType, draggedWorldPoint, initialVertices, constrainAspect, isSymmetric) ==
  LET xs == Xs(initialVertices)
      ys == Ys(initialVertices)
      minX == MinOf(xs)
      maxX == MaxOf(xs)
      minY == MinOf(ys)
      maxY == MaxOf(ys)
      centerX == Div(Add(minX, maxX), I(2))
      centerY == Div(Add(minY, maxY), I(2))
      initialWidth == Sub(maxX, minX)
      initialHeight == Sub(maxY, minY)
      n == Len(initialVertices)
      anchorPoint ==
        CASE handleType = "nw" -> Pt(maxX, maxY)
          [] handleType = "ne" -> Pt(minX, maxY)
          [] handleType = "se" -> Pt(minX, minY)
          [] handleType = "sw" -> Pt(maxX, minY)
      draggedWidth ==
        IF handleType \in {"nw", "sw"} THEN Sub(anchorPoint.x, draggedWorldPoint.x)
                                       ELSE Sub(draggedWorldPoint.x, anchorPoint.x)
      draggedHeight ==
        IF handleType \in {"nw", "ne"} THEN Sub(anchorPoint.y, draggedWorldPoint.y)
                                       ELSE Sub(draggedWorldPoint.y, anchorPoint.y)
      avgScale == Div(Add(MathAbs(Div(draggedWidth, initialWidth)),
                          MathAbs(Div(draggedHeight, initialHeight))), I(2))
      newWidth  == IF constrainAspect
                   THEN Mul(Mul(initialWidth, avgScale), MathSign(draggedWidth))
                   ELSE draggedWidth
      newHeight == IF constrainAspect
                   THEN Mul(Mul(initialHeight, avgScale), MathSign(draggedHeight))
                   ELSE draggedHeight
      place(v) ==
        LET relX == Div(Sub(v.x, minX), initialWidth)
            relY == Div(Sub(v.y, minY), initialHeight)
        IN  IF isSymmetric
            THEN Pt(Add(centerX, Mul(Sub(relX, R(1, 2)), newWidth)),
                    Add(centerY, Mul(Sub(relY, R(1, 2)), newHeight)))
            ELSE Pt(Add(anchorPoint.x,
                        Mul(Sub(relX, IF anchorPoint.x = maxX THEN I(1) ELSE I(0)), newWidth)),
                    Add(anchorPoint.y,
                        Mul(Sub(relY, IF anchorPoint.y = maxY THEN I(1) ELSE I(0)), newHeight)))
  IN  IF n < 2 THEN initialVertices
      ELSE IF handleType \notin {"nw", "ne", "se", "sw"} THEN initialVertices
      ELSE [i \in 1..n |-> place(initialVertices[i])]

(***************************************************************************)
(* client/src/components/FloorplanCanvas.tsx: handles and hit tests        *)
(***************************************************************************)
\* the ten handles of a canvas-space bounding box, in the order the code
\* lists them
handles(minX, maxX, minY, maxY) ==
  LET midX == Div(Add(minX, maxX), I(2))
      midY == Div(Add(minY, maxY), I(2))
  IN  << [pos |-> Pt(minX, minY), type |-> "nw"],
         [pos |-> Pt(midX, minY), type |-> "n"],
         [pos |-> Pt(maxX, minY), type |-> "ne"],
         [pos |-> Pt(maxX, midY), type |-> "e"],
         [pos |-> Pt(maxX, maxY), type |-> "se"],
         [pos |-> Pt(midX, maxY), type |-> "s"],
         [pos |-> Pt(minX, maxY), type |-> "sw"],
         [pos |-> Pt(minX, midY), type |-> "w"],
         [pos |-> Pt(midX, midY), type |-> "center"],
         [pos |-> Pt(midX, Sub(minY, I(30))), type |-> "rotate"] >>

canvasVerticesOf(shape, vt, size) ==
  [i \in 1..Len(shape.vertices) |->
     worldToCanvas(shape.vertices[i], vt, DEFAULT_EDITING_DPI, size.width, size.height)]

\* where drawHandles paints each handle: the handle list under the canvas
\* transform translate(c) rotate(shape.rotation) translate(-c), which the
\* code sets when shape.rotation is truthy
drawHandles(shape, vt, size) ==
  LET turned(p, centerX, centerY, c, sn) ==
        Pt(Add(centerX, Sub(Mul(Sub(p.x, centerX), c), Mul(Sub(p.y, centerY), sn))),
           Add(centerY, Add(Mul(Sub(p.x, centerX), sn), Mul(Sub(p.y, centerY), c))))
      painted(hs, centerX, centerY) ==
        IF shape.rotation # I(0) /\ ~IsNaN(shape.rotation)
        THEN [i \in 1..Len(hs) |->
                [pos |-> turned(hs[i].pos, centerX, centerY,
                                CosDeg(shape.rotation), SinDeg(shape.rotation)),
                 type |-> hs[i].type]]
        ELSE hs
      boxed(minX, maxX, minY, maxY) ==
        painted(handles(minX, maxX, minY, maxY),
                Div(Add(minX, maxX), I(2)), Div(Add(minY, maxY), I(2)))
      of(cv) ==
        IF Len(cv) = 0 THEN <<>>
        ELSE boxed(MinOf(Xs(cv)), MaxOf(Xs(cv)), MinOf(Ys(cv)), MaxOf(Ys(cv)))
  IN  of(canvasVerticesOf(shape, vt, size))

RECURSIVE firstHandleHit(_, _)
firstHandleHit(hs, canvasPoint) ==
  IF hs = <<>> THEN NONE
  ELSE LET handle == Head(hs)
           dx == Sub(canvasPoint.x, handle.pos.x)
           dy == Sub(canvasPoint.y, handle.pos.y)
           radius == IF handle.type = "rotate" THEN I(10) ELSE I(8)
       IN  IF HypotLe(Hypot(dx, dy), radius) THEN handle.type
           ELSE firstHandleHit(Tail(hs), canvasPoint)

findHandleAtPoint(shape, canvasPoint, vt, size) ==
  LET of(cv) ==
        IF Len(cv) = 0 THEN NONE
        ELSE firstHandleHit(handles(MinOf(Xs(cv)), MaxOf(Xs(cv)),
                                    MinOf(Ys(cv)), MaxOf(Ys(cv))), canvasPoint)
  IN  of(canvasVerticesOf(shape, vt, size))

\* ray casting; j runs one vertex behind i, starting at the last vertex
RECURSIVE pointInPolygonFrom(_, _, _, _)
pointInPolygonFrom(point, vertices, i, inside) ==
  IF i > Len(vertices) THEN inside
  ELSE LET j  == IF i = 1 THEN Len(vertices) ELSE i - 1
           xi == vertices[i].x
           yi == vertices[i].y
           xj == vertices[j].x
           yj == vertices[j].y
           intersect ==
             /\ Gt(yi, point.y) # Gt(yj, point.y)
             /\ Lt(point.x, Add(Div(Mul(Sub(xj, xi), Sub(point.y, yi)), Sub(yj, yi)), xi))
       IN  pointInPolygonFrom(point, vertices, i + 1,
                              IF intersect THEN ~inside ELSE inside)

pointInPolygon(point, vertices) == pointInPolygonFrom(point, vertices, 1, FALSE)

distanceToSegment(point, v, w) ==
  LET projected(t) ==
        Hypot(Sub(point.x, Add(v.x, Mul(t, Sub(w.x, v.x)))),
              Sub(point.y, Add(v.y, Mul(t, Sub(w.y, v.y)))))
      of(l2) ==
        IF l2 = I(0) THEN Hypot(Sub(point.x, v.x), Sub(point.y, v.y))
        ELSE projected(MathMax2(I(0), MathMin2(I(1),
               Div(Add(Mul(Sub(point.x, v.x), Sub(w.x, v.x)),
                       Mul(Sub(point.y, v.y), Sub(w.y, v.y))), l2))))
  IN  of(Add(Mul(Sub(v.x, w.x), Sub(v.x, w.x)), Mul(Sub(v.y, w.y), Sub(v.y, w.y))))

isPointInShape(point, shape) ==
  LET tolerance == R(1, 2)
      bmin == Pt(Sub(MinOf(Xs(shape.vertices)), tolerance),
                 Sub(MinOf(Ys(shape.vertices)), tolerance))
      bmax == Pt(Add(MaxOf(Xs(shape.vertices)), tolerance),
                 Add(MaxOf(Ys(shape.vertices)), tolerance))
  IN  IF \/ Lt(point.x, bmin.x) \/ Gt(point.x, bmax.x)
         \/ Lt(point.y, bmin.y) \/ Gt(point.y, bmax.y)
      THEN FALSE
      ELSE IF shape.type \in {"polygon", "rectangle"}
           THEN pointInPolygon(point, shape.vertices)
      ELSE IF shape.type \in {"line", "freehand"}
           THEN \E i \in 1..(Len(shape.vertices) - 1) :
                   HypotLt(distanceToSegment(point, shape.vertices[i],
                                             shape.vertices[i + 1]), I(1))
      ELSE TRUE

\* the topmost shape under the point: the last of the list that contains it
RECURSIVE findShapeAtPointFrom(_, _, _)
findShapeAtPointFrom(shapeList, point, i) ==
  IF i < 1 THEN NULL
  ELSE IF isPointInShape(point, shapeList[i]) THEN shapeList[i]
  ELSE findShapeAtPointFrom(shapeList, point, i - 1)

findShapeAtPoint(shapeList, point) ==
  findShapeAtPointFrom(shapeList, point, Len(shapeList))

createRectangleVertices(points) ==
  IF Len(points) # 2 THEN points
  ELSE << Pt(points[1].x, points[1].y), Pt(points[2].x, points[1].y),
          Pt(points[2].x, points[2].y), Pt(points[1].x, points[2].y) >>

\* the numbers the live measurement label shows
calculateShapeMeasurement(vertices) ==
  IF Len(vertices) < 2 THEN NULL
  ELSE LET xs == Xs(vertices)
           ys == Ys(vertices)
       IN  [label |-> <<ToFixed2(Sub(MaxOf(xs), MinOf(xs))),
                        ToFixed2(Sub(MaxOf(ys), MinOf(ys)))>>,
            position |-> Pt(Div(Add(MaxOf(xs), MinOf(xs)), I(2)),
                            Div(Add(MaxOf(ys), MinOf(ys)), I(2)))]

(***************************************************************************)
(* client/src/lib/door-renderer.ts                                         *)
(***************************************************************************)
\* one pass of the inner loop: segment i (0-based) of the shape against the
\* closest result so far
RECURSIVE scanSegments(_, _, _, _, _)
scanSegments(shape, i, point, threshold, closest) ==
  LET n == Len(shape.vertices)
      \* the result after the segment from v1 along (dx, dy)
      judged(closestPoint, dist, dx, dy) ==
        IF HypotLt(dist, threshold)
           /\ (closest = NULL \/ HypotLtHypot(dist, closest.distance))
        THEN [shape |-> shape, segmentIndex |-> i, closestPoint |-> closestPoint,
              distance |-> dist, rotation |-> Atan2Deg(dy, dx)]
        ELSE closest
      reached(closestPoint, dx, dy) ==
        judged(closestPoint,
               Hypot(Sub(point.x, closestPoint.x), Sub(point.y, closestPoint.y)),
               dx, dy)
      projected(v1, dx, dy, t) ==
        reached(Pt(Add(v1.x, Mul(t, dx)), Add(v1.y, Mul(t, dy))), dx, dy)
      measured(v1, dx, dy, lengthSq) ==
        IF lengthSq = I(0) THEN closest
        ELSE projected(v1, dx, dy,
               MathMax2(I(0), MathMin2(I(1),
                 Div(Add(Mul(Sub(point.x, v1.x), dx), Mul(Sub(point.y, v1.y), dy)),
                     lengthSq))))
      along(v1, dx, dy) == measured(v1, dx, dy, Add(Mul(dx, dx), Mul(dy, dy)))
      between(v1, v2) == along(v1, Sub(v2.x, v1.x), Sub(v2.y, v1.y))
  IN  IF i >= n THEN closest
      ELSE IF shape.type = "line" /\ i > 0 THEN closest
      ELSE IF shape.type = "freehand" /\ i >= n - 1 THEN closest
      ELSE scanSegments(shape, i + 1, point, threshold,
                        between(shape.vertices[i + 1], shape.vertices[((i + 1) % n) + 1]))

RECURSIVE scanShapes(_, _, _, _, _)
scanShapes(shapeList, k, point, threshold, closest) ==
  IF k > Len(shapeList) THEN closest
  ELSE IF shapeList[k].layer \notin {"house", "wall"}
       THEN scanShapes(shapeList, k + 1, point, threshold, closest)
       ELSE scanShapes(shapeList, k + 1, point, threshold,
                       scanSegments(shapeList[k], 0, point, threshold, closest))

\* findWallSegmentAtPoint reaching one foot further than asked
findWallSegmentAtPoint_Wide(shapeList, point, threshold) ==
  LET result(closestResult) ==
        IF closestResult = NULL THEN NULL
        ELSE [shape |-> closestResult.shape,
              segmentIndex |-> closestResult.segmentIndex,
              closestPoint |-> closestResult.closestPoint,
              rotation |-> closestResult.rotation]
  IN  result(scanShapes(shapeList, 1, point, Add(threshold, I(1)), NULL))

findWallSegmentAtPoint(shapeList, point, threshold) ==
  LET result(closestResult) ==
        IF closestResult = NULL THEN NULL
        ELSE [shape |-> closestResult.shape,
              segmentIndex |-> closestResult.segmentIndex,
              closestPoint |-> closestResult.closestPoint,
              rotation |-> closestResult.rotation]
  IN  result(scanShapes(shapeList, 1, point, threshold, NULL))

RECURSIVE findDoorAtPoint(_, _, _)
findDoorAtPoint(doorList, point, threshold) ==
  IF doorList = <<>> THEN NULL
  ELSE LET door == Head(doorList)
           dist == Hypot(Sub(point.x, door.position.x), Sub(point.y, door.position.y))
       IN  IF HypotLt(dist, Add(threshold, Div(door.width, I(2)))) THEN door
           ELSE findDoorAtPoint(Tail(doorList), point, threshold)

findDoorHandle(door, point, vt, threshold) ==
  LET halfWidth == Div(door.width, I(2))
      hit(dx, dy) ==
        IF HypotLt(Hypot(Sub(point.x, Sub(door.position.x, Mul(dx, halfWidth))),
                         Sub(point.y, Sub(door.position.y, Mul(dy, halfWidth)))),
                   threshold) THEN "start"
        ELSE IF HypotLt(Hypot(Sub(point.x, Add(door.position.x, Mul(dx, halfWidth))),
                              Sub(point.y, Add(door.position.y, Mul(dy, halfWidth)))),
                        threshold) THEN "end"
        ELSE NONE
  IN  hit(CosDeg(door.rotation), SinDeg(door.rotation))

(***************************************************************************)
(* client/src/lib/coordinate-math.ts: polygonArea, getBounds               *)
(***************************************************************************)
RECURSIVE shoelaceFrom(_, _)
\* the loop of polygonArea from index i (0-based) on
shoelaceFrom(vertices, i) ==
  IF i >= Len(vertices) THEN I(0)
  ELSE LET vi == vertices[i + 1]
           vj == vertices[((i + 1) % Len(vertices)) + 1]
       IN  Add(Sub(Mul(vi.x, vj.y), Mul(vj.x, vi.y)), shoelaceFrom(vertices, i + 1))

polygonArea(vertices) ==
  IF Len(vertices) < 3 THEN I(0)
  ELSE MathAbs(Div(shoelaceFrom(vertices, 0), I(2)))

getBounds(vertices) ==
  IF Len(vertices) = 0 THEN [min |-> Pt(I(0), I(0)), max |-> Pt(I(0), I(0))]
  ELSE [min |-> Pt(MinOf(Xs(vertices)), MinOf(Ys(vertices))),
        max |-> Pt(MaxOf(Xs(vertices)), MaxOf(Ys(vertices)))]

(***************************************************************************)
(* client/src/lib/roof-renderer.ts                                         *)
(***************************************************************************)
\* Math.abs(a - b) < 0.01
within001(a, b) == Lt(MathAbs(Sub(a, b)), R(1, 100))

isRectilinear(vertices) ==
  LET n == Len(vertices)
      axial(v) == within001(v.y, I(0)) \/ within001(v.x, I(0))
      turn(prev, curr, next) ==
        /\ axial(Pt(Sub(curr.x, prev.x), Sub(curr.y, prev.y)))
        /\ axial(Pt(Sub(next.x, curr.x), Sub(next.y, curr.y)))
  IN  IF n < 4 THEN FALSE
      ELSE \A i \in 0..(n - 1) :
             turn(vertices[((i - 1 + n) % n) + 1], vertices[i + 1],
                  vertices[((i + 1) % n) + 1])

\* a test that takes every point for one of the polygon
isPointInPolygon_Always(point, vertices) == TRUE

RECURSIVE isPointInPolygonFrom(_, _, _, _, _)
\* the loop of isPointInPolygon at (i, j), 0-based
isPointInPolygonFrom(point, vertices, i, j, inside) ==
  IF i >= Len(vertices) THEN inside
  ELSE LET vi == vertices[i + 1]
           vj == vertices[j + 1]
           intersect ==
             /\ Gt(vi.y, point.y) # Gt(vj.y, point.y)
             /\ Lt(point.x, Add(Div(Mul(Sub(vj.x, vi.x), Sub(point.y, vi.y)),
                                    Sub(vj.y, vi.y)), vi.x))
       IN  isPointInPolygonFrom(point, vertices, i + 1, i,
                                IF intersect THEN ~inside ELSE inside)

isPointInPolygon(point, vertices) ==
  isPointInPolygonFrom(point, vertices, 0, Len(vertices) - 1, FALSE)

\* one pass of the inner loop's body: current against rects[j], first along
\* x (equal y extent), then along y (equal x extent)
mergeOther(st, other, j) ==
  LET took(c) == [current |-> c, used |-> st.used \cup {j}, didMerge |-> TRUE]
      alongX(s1) ==
        IF within001(s1.current.minY, other.minY) /\ within001(s1.current.maxY, other.maxY)
        THEN IF within001(s1.current.maxX, other.minX)
             THEN took([s1.current EXCEPT !.maxX = other.maxX])
             ELSE IF within001(s1.current.minX, other.maxX)
             THEN took([s1.current EXCEPT !.minX = other.minX])
             ELSE s1
        ELSE s1
      alongY(s1) ==
        IF within001(s1.current.minX, other.minX) /\ within001(s1.current.maxX, other.maxX)
        THEN IF within001(s1.current.maxY, other.minY)
             THEN took([s1.current EXCEPT !.maxY = other.maxY])
             ELSE IF within001(s1.current.minY, other.maxY)
             THEN took([s1.current EXCEPT !.minY = other.minY])
             ELSE s1
        ELSE s1
  IN  alongY(alongX(st))

RECURSIVE mergeScan(_, _, _, _)
\* the for loop over j (0-based) inside the while loop
mergeScan(rects, i, j, st) ==
  IF j >= Len(rects) THEN st
  ELSE IF i = j \/ j \in st.used THEN mergeScan(rects, i, j + 1, st)
  ELSE mergeScan(rects, i, j + 1, mergeOther(st, rects[j + 1], j))

RECURSIVE mergeWhile(_, _, _, _)
\* while (didMerge)
mergeWhile(rects, i, current, used) ==
  LET again(st) ==
        IF st.didMerge THEN mergeWhile(rects, i, st.current, st.used) ELSE st
  IN  again(mergeScan(rects, i, 0,
                      [current |-> current, used |-> used, didMerge |-> FALSE]))

RECURSIVE mergeFrom(_, _, _, _)
\* the outer loop over i (0-based)
mergeFrom(rects, i, merged, used) ==
  LET kept(st) == mergeFrom(rects, i + 1, Append(merged, st.current), st.used \cup {i})
  IN  IF i >= Len(rects) THEN merged
      ELSE IF i \in used THEN mergeFrom(rects, i + 1, merged, used)
      ELSE kept(mergeWhile(rects, i, rects[i + 1], used))

\* no merging at all: the kept cells as they are
mergeAdjacentRectangles_None(rects) == rects

mergeAdjacentRectangles(rects) ==
  IF Len(rects) <= 1 THEN rects ELSE mergeFrom(rects, 0, <<>>, {})

RECURSIVE sortedNumbers_Descending(_)
\* the distinct values sorted the other way round, as by (a, b) => b - a
sortedNumbers_Descending(values) ==
  IF values = {} THEN <<>>
  ELSE LET most == CHOOSE m \in values : \A o \in values : Ge(m, o)
       IN  <<most>> \o sortedNumbers_Descending(values \ {most})

RECURSIVE sortedNumbers(_)
\* Array.from(new Set(values)).sort((a, b) => a - b)
sortedNumbers(values) ==
  IF values = {} THEN <<>>
  ELSE LET least == CHOOSE m \in values : \A o \in values : Le(m, o)
       IN  <<least>> \o sortedNumbers(values \ {least})

boundsRectangle(vertices) ==
  LET of(bounds) == [minX |-> bounds.min.x, minY |-> bounds.min.y,
                     maxX |-> bounds.max.x, maxY |-> bounds.max.y]
  IN  of(getBounds(vertices))

decomposeRectilinearPolygon(vertices) ==
  LET grid(xCoords, yCoords) ==
        LET nx == Len(xCoords) - 1
            ny == Len(yCoords) - 1
            \* the cells in the order of the nested loops: i over x, j over y
            cell(k) == [minX |-> xCoords[((k - 1) \div ny) + 1],
                        minY |-> yCoords[((k - 1) % ny) + 1],
                        maxX |-> xCoords[((k - 1) \div ny) + 2],
                        maxY |-> yCoords[((k - 1) % ny) + 2]]
            centred(rect) ==
              isPointInPolygon(Pt(Div(Add(rect.minX, rect.maxX), I(2)),
                                  Div(Add(rect.minY, rect.maxY), I(2))), vertices)
        IN  IF Len(xCoords) < 2 \/ Len(yCoords) < 2 THEN <<boundsRectangle(vertices)>>
            ELSE mergeAdjacentRectangles(
                   SelectSeq([k \in 1..(nx * ny) |-> cell(k)], centred))
  IN  IF Len(vertices) < 4 THEN <<>>
      ELSE IF ~isRectilinear(vertices) THEN <<boundsRectangle(vertices)>>
      ELSE grid(sortedNumbers({vertices[i].x : i \in 1..Len(vertices)}),
                sortedNumbers({vertices[i].y : i \in 1..Len(vertices)}))

createSection(rect) ==
  LET width  == Sub(rect.maxX, rect.minX)
      height == Sub(rect.maxY, rect.minY)
  IN  [bounds |-> [min |-> Pt(rect.minX, rect.minY), max |-> Pt(rect.maxX, rect.maxY)],
       center |-> Pt(Add(rect.minX, Div(width, I(2))), Add(rect.minY, Div(height, I(2)))),
       width |-> width, height |-> height]

detectRoofSections(shape) ==
  IF shape.type # "rectangle" /\ shape.type # "polygon" THEN <<>>
  ELSE IF Len(shape.vertices) < 3 THEN <<>>
  ELSE LET sections(rectangles) ==
             [k \in 1..Len(rectangles) |-> createSection(rectangles[k])]
       IN  sections(decomposeRectilinearPolygon(shape.vertices))

(***************************************************************************)
(* The editor state after construction (Floorplan.tsx 26-52,               *)
(* FloorplanCanvas.tsx 78-103), as one record of the state hooks           *)
(***************************************************************************)
initialViewTransform == [panX |-> I(0), panY |-> I(0), zoom |-> I(1)]

\* the request the page's mount effect has sent: POST /api/projects, the
\* first request issued
initProject ==
  [method |-> "POST", by |-> "init", id |-> NONE, idle |-> 0,
   outcome |-> "pending",
   body |-> [name |-> "New Floorplan", currentStep |-> "plot-size",
             shapes |-> <<>>, viewTransform |-> initialViewTransform]]

EditorInitial ==
  [shapes |-> <<>>, doors |-> <<>>, viewTransform |-> initialViewTransform,
   selectedShapeId |-> NONE, selectedDoorId |-> NONE, activeTool |-> "select",
   snapEnabled |-> TRUE,
   doorPlacementMode |-> [active |-> FALSE, doorType |-> "single", width |-> I(3)],
   currentStep |-> "plot-size", completedSteps |-> <<>>,
   canvasSize |-> [width |-> I(800), height |-> I(600)],
   isDrawing |-> FALSE, currentPoints |-> <<>>, snapPoint |-> NULL,
   previewPoint |-> NULL, dragState |-> NULL, doorDragState |-> NULL,
   isPanning |-> FALSE, panStart |-> NULL, spacePressed |-> FALSE,
   hoveredHandle |-> NULL, hoveredShapeId |-> NONE, hoveredDoorId |-> NONE,
   mousePosition |-> NULL, liveMeasurement |-> NULL,
   toast |-> "none", lastEvent |-> [type |-> "init"], nextId |-> 1,
   dragStartRotation |-> UNDEFINED, nEvents |-> 0,
   projectId |-> NONE, timeouts |-> {}, cleanup |-> 0,
   requests |-> {1}, responses |-> {}, projects |-> <<>>,
   issued |-> <<initProject>>, timeoutsSet |-> 0, idle |-> 0,
   placedWith |-> {}]

\* the hooks' current values as one record, and the hooks set from a record
Cur ==
  [shapes |-> shapes, doors |-> doors, viewTransform |-> viewTransform,
   selectedShapeId |-> selectedShapeId, selectedDoorId |-> selectedDoorId,
   activeTool |-> activeTool, snapEnabled |-> snapEnabled,
   doorPlacementMode |-> doorPlacementMode, currentStep |-> currentStep,
   completedSteps |-> completedSteps,
   canvasSize |-> canvasSize, isDrawing |-> isDrawing,
   currentPoints |-> currentPoints, snapPoint |-> snapPoint,
   previewPoint |-> previewPoint, dragState |-> dragState,
   doorDragState |-> doorDragState, isPanning |-> isPanning,
   panStart |-> panStart, spacePressed |-> spacePressed,
   hoveredHandle |-> hoveredHandle, hoveredShapeId |-> hoveredShapeId,
   hoveredDoorId |-> hoveredDoorId, mousePosition |-> mousePosition,
   liveMeasurement |-> liveMeasurement, toast |-> toast, lastEvent |-> lastEvent,
   nextId |-> nextId, dragStartRotation |-> dragStartRotation,
   nEvents |-> nEvents,
   projectId |-> projectId, timeouts |-> timeouts, cleanup |-> cleanup,
   requests |-> requests, responses |-> responses, projects |-> projects,
   issued |-> issued, timeoutsSet |-> timeoutsSet, idle |-> idle,
   placedWith |-> placedWith]

Becomes(s) ==
  /\ shapes' = s.shapes /\ doors' = s.doors /\ viewTransform' = s.viewTransform
  /\ selectedShapeId' = s.selectedShapeId /\ selectedDoorId' = s.selectedDoorId
  /\ activeTool' = s.activeTool /\ snapEnabled' = s.snapEnabled
  /\ doorPlacementMode' = s.doorPlacementMode /\ currentStep' = s.currentStep
  /\ canvasSize' = s.canvasSize /\ isDrawing' = s.isDrawing
  /\ currentPoints' = s.currentPoints /\ snapPoint' = s.snapPoint
  /\ previewPoint' = s.previewPoint /\ dragState' = s.dragState
  /\ doorDragState' = s.doorDragState /\ isPanning' = s.isPanning
  /\ panStart' = s.panStart /\ spacePressed' = s.spacePressed
  /\ hoveredHandle' = s.hoveredHandle /\ hoveredShapeId' = s.hoveredShapeId
  /\ hoveredDoorId' = s.hoveredDoorId /\ toast' = s.toast
  /\ completedSteps' = s.completedSteps /\ mousePosition' = s.mousePosition
  /\ liveMeasurement' = s.liveMeasurement
  /\ lastEvent' = s.lastEvent /\ nextId' = s.nextId
  /\ dragStartRotation' = s.dragStartRotation /\ nEvents' = s.nEvents
  /\ projectId' = s.projectId /\ timeouts' = s.timeouts /\ cleanup' = s.cleanup
  /\ requests' = s.requests /\ responses' = s.responses
  /\ projects' = s.projects /\ issued' = s.issued
  /\ timeoutsSet' = s.timeoutsSet /\ idle' = s.idle
  /\ placedWith' = s.placedWith

EditorIs(s) ==
  /\ shapes = s.shapes /\ doors = s.doors /\ viewTransform = s.viewTransform
  /\ selectedShapeId = s.selectedShapeId /\ selectedDoorId = s.selectedDoorId
  /\ activeTool = s.activeTool /\ snapEnabled = s.snapEnabled
  /\ doorPlacementMode = s.doorPlacementMode /\ currentStep = s.currentStep
  /\ canvasSize = s.canvasSize /\ isDrawing = s.isDrawing
  /\ currentPoints = s.currentPoints /\ snapPoint = s.snapPoint
  /\ previewPoint = s.previewPoint /\ dragState = s.dragState
  /\ doorDragState = s.doorDragState /\ isPanning = s.isPanning
  /\ panStart = s.panStart /\ spacePressed = s.spacePressed
  /\ hoveredHandle = s.hoveredHandle /\ hoveredShapeId = s.hoveredShapeId
  /\ hoveredDoorId = s.hoveredDoorId /\ toast = s.toast
  /\ completedSteps = s.completedSteps /\ mousePosition = s.mousePosition
  /\ liveMeasurement = s.liveMeasurement
  /\ lastEvent = s.lastEvent /\ nextId = s.nextId
  /\ dragStartRotation = s.dragStartRotation /\ nEvents = s.nEvents
  /\ projectId = s.projectId /\ timeouts = s.timeouts /\ cleanup = s.cleanup
  /\ requests = s.requests /\ responses = s.responses
  /\ projects = s.projects /\ issued = s.issued
  /\ timeoutsSet = s.timeoutsSet /\ idle = s.idle
  /\ placedWith = s.placedWith

editorVars == <<shapes, doors, viewTransform, selectedShapeId, selectedDoorId,
          activeTool, snapEnabled, doorPlacementMode, currentStep,
          completedSteps,
          canvasSize, isDrawing, currentPoints, snapPoint, previewPoint,
          dragState, doorDragState, isPanning, panStart, spacePressed,
          hoveredHandle, hoveredShapeId, hoveredDoorId, mousePosition,
          liveMeasurement,
          projectId, timeouts, cleanup, requests, responses, projects,
          toast, lastEvent, nextId, dragStartRotation, nEvents,
          issued, timeoutsSet, idle, placedWith>>

(***************************************************************************)
(* The handlers, each as the editor state it leaves from the state s it    *)
(* runs in.  s.toast is "none" on entry.                                   *)
(***************************************************************************)
\* crypto.randomUUID(): the n-th fresh id
randomUUID(n) == "id" \o ToString(n)

\* list.find(x => x.id === id)
RECURSIVE find(_, _)
find(list, id) ==
  IF list = <<>> THEN NULL
  ELSE IF Head(list).id = id THEN Head(list)
  ELSE find(Tail(list), id)

\* list.filter(x => x.id !== id)
without(list, id) == SelectSeq(list, LAMBDA x : x.id # id)

\* list.map(x => x.id === item.id ? item : x)
replaced(list, item) ==
  [i \in 1..Len(list) |-> IF list[i].id = item.id THEN item ELSE list[i]]

\* shapes.flatMap(s => s.vertices)
RECURSIVE flatVertices(_)
flatVertices(shapeList) ==
  IF shapeList = <<>> THEN <<>>
  ELSE Head(shapeList).vertices \o flatVertices(Tail(shapeList))

pointerWorld(s, canvasPoint) ==
  canvasToWorld(canvasPoint, s.viewTransform, DEFAULT_EDITING_DPI,
                s.canvasSize.width, s.canvasSize.height)

layerOfStep(step) ==
  IF step = "plot-size" THEN "plot"
  ELSE IF step = "house-shape" THEN "house" ELSE "default"

(* Floorplan.tsx *)
handleCreatePreset(s, width, height) ==
  LET placed(newShape) ==
        [s EXCEPT !.shapes = <<newShape>>, !.selectedShapeId = newShape.id,
                  !.nextId = @ + 1, !.toast = "Plot Created"]
      from(startX, startY) ==
        placed([id |-> randomUUID(s.nextId), type |-> "rectangle",
                vertices |-> << Pt(startX, startY), Pt(Add(startX, width), startY),
                                Pt(Add(startX, width), Add(startY, height)),
                                Pt(startX, Add(startY, height)) >>,
                layer |-> "plot", rotation |-> I(0)])
  IN  from(Sub(Div(A2_WIDTH_FT, I(2)), Div(width, I(2))),
           Sub(Div(A2_HEIGHT_FT, I(2)), Div(height, I(2))))

\* the outline of a house of the default size 10 around (cx, cy); h is half
\* the size and q a quarter
houseOutline(shapeType, cx, cy, h, q) ==
  CASE shapeType = "rectangular" ->
         << Pt(Sub(cx, h), Sub(cy, h)), Pt(Add(cx, h), Sub(cy, h)),
            Pt(Add(cx, h), Add(cy, h)), Pt(Sub(cx, h), Add(cy, h)) >>
    [] shapeType = "l-shaped" ->
         << Pt(Sub(cx, h), Sub(cy, h)), Pt(Add(cx, h), Sub(cy, h)),
            Pt(Add(cx, h), cy), Pt(cx, cy),
            Pt(cx, Add(cy, h)), Pt(Sub(cx, h), Add(cy, h)) >>
    [] shapeType = "mirror-l" ->
         << Pt(Sub(cx, h), Sub(cy, h)), Pt(Add(cx, h), Sub(cy, h)),
            Pt(Add(cx, h), Add(cy, h)), Pt(cx, Add(cy, h)),
            Pt(cx, cy), Pt(Sub(cx, h), cy) >>
    [] shapeType = "u-shaped" ->
         << Pt(Sub(cx, h), Sub(cy, h)), Pt(Sub(cx, q), Sub(cy, h)),
            Pt(Sub(cx, q), Add(cy, q)), Pt(Add(cx, q), Add(cy, q)),
            Pt(Add(cx, q), Sub(cy, h)), Pt(Add(cx, h), Sub(cy, h)),
            Pt(Add(cx, h), Add(cy, h)), Pt(Sub(cx, h), Add(cy, h)) >>

houseVertices(shapeType, cx, cy) ==
  houseOutline(shapeType, cx, cy, Div(I(10), I(2)), Div(I(10), I(4)))

handleCreateHouseShape(s, shapeType) ==
  LET placed(newShape) ==
        [s EXCEPT !.shapes = Append(s.shapes, newShape),
                  !.selectedShapeId = newShape.id,
                  !.nextId = @ + 1, !.toast = "House Shape Created"]
      on(plotVertices) ==
        placed([id |-> randomUUID(s.nextId), type |-> "polygon",
                vertices |-> houseVertices(shapeType,
                   Div(Add(MinOf(Xs(plotVertices)), MaxOf(Xs(plotVertices))), I(2)),
                   Div(Add(MinOf(Ys(plotVertices)), MaxOf(Ys(plotVertices))), I(2))),
                layer |-> "house", rotation |-> I(0)])
      with(plots) ==
        IF plots = <<>> THEN [s EXCEPT !.toast = "No Plot Found"]
        ELSE on(Head(plots).vertices)
  IN  with(SelectSeq(s.shapes, LAMBDA x : x.layer = "plot"))

stepOrder == <<"plot-size", "house-shape", "add-doors", "details", "export-save">>
indexOfStep(step) == CHOOSE i \in 1..Len(stepOrder) : stepOrder[i] = step

handleNext(s) ==
  LET currentIndex == indexOfStep(s.currentStep)
  IN  IF s.currentStep = "plot-size" /\ Len(s.shapes) = 0
      THEN [s EXCEPT !.toast = "Plot Required"]
      ELSE IF currentIndex < Len(stepOrder)
      THEN [s EXCEPT !.completedSteps =
                        IF \E i \in 1..Len(@) : @[i] = s.currentStep
                        THEN @ ELSE Append(@, s.currentStep),
                     !.currentStep = stepOrder[currentIndex + 1]]
      ELSE s

handlePrevious(s) ==
  LET currentIndex == indexOfStep(s.currentStep)
  IN  IF currentIndex > 1
      THEN [s EXCEPT !.currentStep = stepOrder[currentIndex - 1]]
      ELSE s

(* WizardSteps *)
\* the steps the indicator shows
steps == <<"plot-size", "house-shape", "details", "export-save">>
\* steps.findIndex(s => s.id === currentStep), from 1 and 0 when none is
findIndexOfStep(step) ==
  IF \E i \in 1..Len(steps) : steps[i] = step
  THEN CHOOSE i \in 1..Len(steps) : steps[i] = step
  ELSE 0
\* the button of the index-th step of the indicator is clicked:
\* onStepClick is setCurrentStep
stepClick(s, index) ==
  LET isCompleted == \E i \in 1..Len(s.completedSteps) :
                       s.completedSteps[i] = steps[index]
      isPast == index < findIndexOfStep(s.currentStep)
  IN  IF isPast \/ isCompleted THEN [s EXCEPT !.currentStep = steps[index]]
      ELSE s

(* Floorplan.tsx *)
handleAddDoor(s, doorType, width) ==
  [s EXCEPT !.doorPlacementMode = [active |-> TRUE, doorType |-> doorType, width |-> width],
            !.activeTool = "select", !.toast = "Door Placement Mode"]

handlePlaceDoor(s, door) ==
  [s EXCEPT !.doors = Append(s.doors, door),
            !.doorPlacementMode = [active |-> FALSE, doorType |-> "single", width |-> I(3)],
            !.toast = "Door Added"]

(* FloorplanCanvas.tsx *)
\* the select-tool branch of handleMouseDown: the checks in the order the
\* code makes them, each returning when it hits
mouseDownSelect(s, canvasPoint, worldPoint, shiftKey, altKey) ==
  LET onShape(clickedShape) ==
        IF clickedShape # NULL
        THEN [s EXCEPT !.selectedShapeId = clickedShape.id, !.selectedDoorId = NONE]
        ELSE [s EXCEPT !.selectedShapeId = NONE, !.selectedDoorId = NONE]
      onHandle(shape, handle) ==
        IF handle # NONE
        THEN [s EXCEPT !.dragState =
                         [shapeId |-> shape.id, handle |-> handle,
                          startPoint |-> worldPoint,
                          originalVertices |-> shape.vertices,
                          shiftKey |-> shiftKey, altKey |-> altKey],
                       !.dragStartRotation = shape.rotation]
        ELSE onShape(findShapeAtPoint(s.shapes, worldPoint))
      onSelectedShape(shape) ==
        onHandle(shape, IF shape # NULL
                        THEN findHandleAtPoint(shape, canvasPoint, s.viewTransform,
                                               s.canvasSize)
                        ELSE NONE)
      onDoor(clickedDoor) ==
        IF clickedDoor # NULL
        THEN [s EXCEPT !.selectedDoorId = clickedDoor.id, !.selectedShapeId = NONE,
                       !.doorDragState =
                         [doorId |-> clickedDoor.id, handle |-> "center",
                          startPoint |-> worldPoint]]
        ELSE onSelectedShape(IF s.selectedShapeId # NONE
                             THEN find(s.shapes, s.selectedShapeId) ELSE NULL)
      onDoorHandle(door, doorHandle) ==
        IF doorHandle # NONE
        THEN [s EXCEPT !.doorDragState =
                         [doorId |-> door.id, handle |-> doorHandle,
                          startPoint |-> worldPoint]]
        ELSE onDoor(findDoorAtPoint(s.doors, worldPoint, I(1)))
      onSelectedDoor(door) ==
        onDoorHandle(door, IF door # NULL
                           THEN findDoorHandle(door, worldPoint, s.viewTransform, R(1, 2))
                           ELSE NONE)
  IN  onSelectedDoor(IF s.selectedDoorId # NONE
                     THEN find(s.doors, s.selectedDoorId) ELSE NULL)

\* handleMouseDown from the world point of the pointer on
mouseDownAt(s, canvasPoint, worldPoint, shiftKey, altKey) ==
  LET placeOn(wallResult) ==
        IF wallResult # NULL
        THEN handlePlaceDoor([s EXCEPT !.nextId = @ + 1],
               [id |-> randomUUID(s.nextId), type |-> s.doorPlacementMode.doorType,
                position |-> wallResult.closestPoint,
                width |-> s.doorPlacementMode.width,
                wallShapeId |-> wallResult.shape.id,
                wallSegmentIndex |-> wallResult.segmentIndex,
                rotation |-> wallResult.rotation])
        ELSE [s EXCEPT !.toast = "Invalid Placement"]
      deleteShape(deletedShape) ==
        IF deletedShape # NULL
        THEN [s EXCEPT !.shapes = without(s.shapes, deletedShape.id),
                       !.selectedShapeId = NONE, !.toast = "Shape Deleted"]
        ELSE s
      deleteDoor(deletedDoor) ==
        IF deletedDoor # NULL
        THEN [s EXCEPT !.doors = without(s.doors, deletedDoor.id),
                       !.toast = "Door Deleted"]
        ELSE deleteShape(findShapeAtPoint(s.shapes, worldPoint))
      draw(point) ==
        IF s.activeTool = "polygon" /\ s.isDrawing
        THEN [s EXCEPT !.currentPoints = Append(@, point)]
        ELSE [s EXCEPT !.isDrawing = TRUE, !.currentPoints = <<point>>]
  IN  IF s.spacePressed \/ s.activeTool = "pan"
      THEN [s EXCEPT !.isPanning = TRUE, !.panStart = canvasPoint]
      ELSE IF s.doorPlacementMode.active
      THEN placeOn(findWallSegmentAtPoint(s.shapes, worldPoint, I(1)))
      ELSE IF s.activeTool = "delete"
      THEN deleteDoor(findDoorAtPoint(s.doors, worldPoint, I(1)))
      ELSE IF s.activeTool = "select"
      THEN mouseDownSelect(s, canvasPoint, worldPoint, shiftKey, altKey)
      ELSE draw(IF s.snapEnabled THEN snapToGrid(worldPoint, GRID_SPACING_FT)
                                 ELSE worldPoint)

handleMouseDown(s, canvasPoint, shiftKey, altKey) ==
  mouseDownAt(s, canvasPoint, pointerWorld(s, canvasPoint), shiftKey, altKey)

\* the doorDragState branch of handleMouseMove
mouseMoveDoorDrag(s, worldPoint) ==
  LET slide(door, wallResult) ==
        IF wallResult # NULL /\ wallResult.shape.id = door.wallShapeId
        THEN [s EXCEPT !.doors =
                replaced(s.doors, [door EXCEPT !.position = wallResult.closestPoint])]
        ELSE s
      sized(door, newWidth) ==
        [s EXCEPT !.doors = replaced(s.doors, [door EXCEPT !.width = newWidth])]
      resize(door, wallLength, dist) ==
        sized(door, IF s.doorDragState.handle = "end"
                    THEN MathMax2(I(2), MathMin2(wallLength, Add(door.width, dist)))
                    ELSE MathMax2(I(2), MathMin2(wallLength, Sub(door.width, dist))))
      onSegment(door, v1, v2) ==
        resize(door,
               MathSqrt(HypotSq(Hypot(Sub(v2.x, v1.x), Sub(v2.y, v1.y)))),
               MathSqrt(HypotSq(Hypot(Sub(worldPoint.x, s.doorDragState.startPoint.x),
                                      Sub(worldPoint.y, s.doorDragState.startPoint.y)))))
      onWall(door, wallShape) ==
        IF door = NULL \/ wallShape = NULL THEN s
        ELSE IF s.doorDragState.handle = "center"
        THEN slide(door, findWallSegmentAtPoint(s.shapes, worldPoint, I(2)))
        ELSE IF s.doorDragState.handle \in {"start", "end"}
        THEN onSegment(door, wallShape.vertices[door.wallSegmentIndex + 1],
                       wallShape.vertices[((door.wallSegmentIndex + 1)
                                             % Len(wallShape.vertices)) + 1])
        ELSE s
      of(door) == onWall(door, IF door # NULL THEN find(s.shapes, door.wallShapeId)
                                              ELSE NULL)
  IN  of(find(s.doors, s.doorDragState.doorId))

\* a drag branch that transforms the shape's present vertices, not the
\* drag-start copy
mouseMoveDrag_Live(s, worldPoint, shiftKey, altKey) ==
  LET shape == find(s.shapes, s.dragState.shapeId)
  IN  IF shape = NULL THEN s
      ELSE [s EXCEPT !.shapes = replaced(s.shapes,
              [shape EXCEPT !.vertices =
                 improvedTransformVertices(shape.vertices, s.dragState.handle,
                   s.dragState.startPoint, worldPoint, shiftKey, altKey,
                   shape).vertices])]

\* the dragState branch of handleMouseMove
mouseMoveDrag(s, worldPoint, shiftKey, altKey) ==
  LET measured(s1, measurement) ==
        IF measurement # NULL THEN [s1 EXCEPT !.liveMeasurement = measurement] ELSE s1
      applied(shape, result) ==
        measured([s EXCEPT !.shapes = replaced(s.shapes,
                    [shape EXCEPT !.vertices = result.vertices,
                                  !.rotation =
                                    IF result.rotationDelta # UNDEFINED
                                    THEN Add(IF @ = I(0) \/ IsNaN(@) THEN I(0) ELSE @,
                                             result.rotationDelta)
                                    ELSE @])],
                 calculateShapeMeasurement(result.vertices))
      of(shape) ==
        IF shape = NULL THEN s
        ELSE applied(shape,
               improvedTransformVertices(s.dragState.originalVertices,
                 s.dragState.handle, s.dragState.startPoint, worldPoint,
                 shiftKey, altKey, shape))
  IN  of(find(s.shapes, s.dragState.shapeId))

\* the tail of handleMouseMove: hover feedback and the drawing preview
mouseMoveHover(s, canvasPoint, worldPoint) ==
  LET onHandle(shape, handle) ==
        [s EXCEPT !.hoveredHandle =
           IF handle # NONE THEN [shapeId |-> shape.id, handle |-> handle] ELSE NULL]
      handleHover(shape) ==
        IF shape = NULL THEN s
        ELSE onHandle(shape, findHandleAtPoint(shape, canvasPoint, s.viewTransform,
                                               s.canvasSize))
      overShape(s1, hoveredShape) ==
        [s1 EXCEPT !.hoveredDoorId = NONE,
                   !.hoveredShapeId = IF hoveredShape # NULL THEN hoveredShape.id
                                                             ELSE NONE]
      over(s1, hoveredDoor) ==
        IF hoveredDoor # NULL
        THEN [s1 EXCEPT !.hoveredDoorId = hoveredDoor.id, !.hoveredShapeId = NONE]
        ELSE overShape(s1, findShapeAtPoint(s.shapes, worldPoint))
      hover(s1) ==
        IF s.activeTool = "select" /\ s.dragState = NULL
           /\ s.doorDragState = NULL /\ ~s.isPanning
        THEN over(s1, findDoorAtPoint(s.doors, worldPoint, I(1)))
        ELSE s1
      drawn(s2, point) ==
        [s2 EXCEPT
           !.currentPoints = IF s.activeTool = "freehand" THEN Append(@, point)
                             ELSE IF s.activeTool = "polygon" THEN @
                             ELSE <<@[1], point>>,
           !.previewPoint = IF s.activeTool = "polygon" THEN point ELSE @,
           !.snapPoint = IF s.snapEnabled
                         THEN findSnapTarget(point, flatVertices(s.shapes),
                                             SNAP_THRESHOLD_FT)
                         ELSE @]
      drawing(s2) ==
        IF ~s.isDrawing THEN s2
        ELSE drawn(s2, IF s.snapEnabled THEN snapToGrid(worldPoint, GRID_SPACING_FT)
                                        ELSE worldPoint)
  IN  drawing(hover(handleHover(IF s.selectedShapeId # NONE /\ s.activeTool = "select"
                                THEN find(s.shapes, s.selectedShapeId) ELSE NULL)))

\* handleMouseMove from the world point of the pointer on; s has the mouse
\* position set
mouseMoveAt(s, canvasPoint, worldPoint, shiftKey, altKey) ==
  IF s.isPanning /\ s.panStart # NULL
  THEN [s EXCEPT !.viewTransform =
                   [@ EXCEPT !.panX = Add(@, Sub(canvasPoint.x, s.panStart.x)),
                             !.panY = Add(@, Sub(canvasPoint.y, s.panStart.y))],
                 !.panStart = canvasPoint]
  ELSE IF s.doorDragState # NULL THEN mouseMoveDoorDrag(s, worldPoint)
  ELSE IF s.dragState # NULL THEN mouseMoveDrag(s, worldPoint, shiftKey, altKey)
  ELSE mouseMoveHover(s, canvasPoint, worldPoint)

handleMouseMove(s, canvasPoint, shiftKey, altKey) ==
  LET at(worldPoint) ==
        mouseMoveAt([s EXCEPT !.mousePosition = worldPoint], canvasPoint, worldPoint,
                    shiftKey, altKey)
  IN  at(pointerWorld(s, canvasPoint))

handleMouseUp(s) ==
  LET added(newShape) ==
        [s EXCEPT !.shapes = Append(@, newShape), !.selectedShapeId = newShape.id,
                  !.nextId = @ + 1]
      finished(s1) ==
        [s1 EXCEPT !.isDrawing = FALSE, !.currentPoints = <<>>,
                   !.snapPoint = NULL, !.previewPoint = NULL]
  IN  IF s.isPanning THEN [s EXCEPT !.isPanning = FALSE, !.panStart = NULL]
      ELSE IF s.doorDragState # NULL THEN [s EXCEPT !.doorDragState = NULL]
      ELSE IF s.dragState # NULL
      THEN [s EXCEPT !.dragState = NULL, !.liveMeasurement = NULL,
                     !.dragStartRotation = UNDEFINED]
      ELSE IF s.isDrawing /\ s.activeTool = "polygon" THEN s
      ELSE finished(IF s.isDrawing /\ Len(s.currentPoints) >= 2
                    THEN added([id |-> randomUUID(s.nextId),
                                type |-> IF s.activeTool \in {"rectangle", "freehand",
                                                              "polygon"}
                                         THEN s.activeTool ELSE "line",
                                vertices |-> IF s.activeTool = "rectangle"
                                             THEN createRectangleVertices(s.currentPoints)
                                             ELSE s.currentPoints,
                                layer |-> layerOfStep(s.currentStep),
                                rotation |-> I(0)])
                    ELSE s)

\* key stands for e.code where the handler reads e.code ("Space") and for
\* e.key elsewhere
handleKeyDown(s, key) ==
  IF key = "Space"
  THEN IF ~s.isDrawing /\ ~s.spacePressed THEN [s EXCEPT !.spacePressed = TRUE] ELSE s
  ELSE IF key \in {"Delete", "Backspace"} /\ s.selectedShapeId # NONE /\ ~s.isDrawing
  THEN [s EXCEPT !.shapes = without(@, s.selectedShapeId), !.selectedShapeId = NONE]
  ELSE IF key = "Escape"
  THEN IF s.isDrawing
       THEN [s EXCEPT !.isDrawing = FALSE, !.currentPoints = <<>>,
                      !.snapPoint = NULL, !.previewPoint = NULL]
       ELSE [s EXCEPT !.selectedShapeId = NONE]
  ELSE IF key = "Backspace" /\ s.isDrawing /\ s.activeTool = "polygon"
          /\ Len(s.currentPoints) > 1
  THEN [s EXCEPT !.currentPoints = SubSeq(@, 1, Len(@) - 1)]
  ELSE IF key = "Enter" /\ s.isDrawing /\ s.activeTool = "polygon"
          /\ Len(s.currentPoints) >= 2
  THEN [s EXCEPT !.shapes = Append(@, [id |-> randomUUID(s.nextId),
                                       type |-> "polygon",
                                       vertices |-> s.currentPoints,
                                       layer |-> layerOfStep(s.currentStep),
                                       rotation |-> I(0)]),
                 !.selectedShapeId = randomUUID(s.nextId),
                 !.nextId = @ + 1,
                 !.isDrawing = FALSE, !.currentPoints = <<>>,
                 !.snapPoint = NULL, !.previewPoint = NULL]
  ELSE s

handleKeyUp(s, key) ==
  IF key = "Space"
  THEN [s EXCEPT !.spacePressed = FALSE, !.isPanning = FALSE, !.panStart = NULL]
  ELSE s

\* the draw effect's two passes over the doors: the doors whose wall line,
\* and the doors whose skin, is painted
drawnDoorLines(s) ==
  SelectSeq(s.doors, LAMBDA door : find(s.shapes, door.wallShapeId) # NULL)
drawnDoorSkins(s) == s.doors

(* Floorplan.tsx *)
\* the page's keydown listener, which runs on the same event as the
\* canvas's: s is the state the event found, which the listener's closure
\* reads, and acc the state with the canvas listener's updates
pageKeyDown(s, acc, key, repeat) ==
  LET toolKeys == [k \in {"1", "2", "3", "4", "5", "6"} |->
                     CASE k = "1" -> "select" [] k = "2" -> "line"
                       [] k = "3" -> "rectangle" [] k = "4" -> "polygon"
                       [] k = "5" -> "freehand" [] k = "6" -> "delete"]
  IN  IF key \in DOMAIN toolKeys THEN [acc EXCEPT !.activeTool = toolKeys[key]]
      ELSE IF key = "Space"
      THEN IF ~repeat
           THEN [acc EXCEPT !.activeTool = IF @ = "pan" THEN "select" ELSE "pan"]
           ELSE acc
      ELSE IF key \in {"Delete", "Backspace"}
      THEN IF s.selectedShapeId # NONE
           THEN [acc EXCEPT !.shapes = without(s.shapes, s.selectedShapeId),
                            !.selectedShapeId = NONE]
           ELSE IF s.selectedDoorId # NONE
           THEN [acc EXCEPT !.doors = without(s.doors, s.selectedDoorId),
                            !.selectedDoorId = NONE]
           ELSE acc
      ELSE IF key = "s" THEN [acc EXCEPT !.snapEnabled = ~s.snapEnabled]
      ELSE IF key = "Escape" /\ s.doorPlacementMode.active
      THEN [acc EXCEPT !.doorPlacementMode =
                         [active |-> FALSE, doorType |-> "single", width |-> I(3)],
                       !.toast = "Cancelled"]
      ELSE acc

handleReset(s) ==
  [s EXCEPT !.shapes = <<>>, !.selectedShapeId = NONE, !.toast = "Plot Reset"]

(***************************************************************************)
(* Saving.  Floorplan.tsx: the auto-save effect (77-93) and handleSave     *)
(* (358-395); use-floorplan: the mutations; routes and MemStorage: the     *)
(* server's side.  A request is a record of the list issued; the set       *)
(* requests holds the numbers of those travelling to the server.           *)
(***************************************************************************)
\* setTimeout(..., 1000)
SaveDelay == 1000
\* the step of the clock
TickMs == 500

\* { currentStep, shapes, viewTransform } of a render
updatesOf(s) ==
  [currentStep |-> s.currentStep, shapes |-> s.shapes,
   viewTransform |-> s.viewTransform]

\* apiRequest(method, url, body) of a mutation: the request leaves
apiRequest(s, method, by, id, body) ==
  [s EXCEPT !.requests = @ \cup {Len(s.issued) + 1},
            !.issued = Append(@, [method |-> method, by |-> by, id |-> id,
                                  idle |-> s.idle,
                                  outcome |-> "pending", body |-> body])]

\* clearTimeout(timeoutId) on the browser's pending timeouts
clearTimeout_Ignored(pending, timeoutId) == pending
clearTimeout(pending, timeoutId) == {t \in pending : t.id # timeoutId}

\* the auto-save effect after the render that follows a handler: prev is the
\* state of the render before.  The effect runs when a dependency is a new
\* value; rerun says that a setter was given a new array or object equal to
\* the old one, which also is a new dependency
autoSaveEffect(prev, s, rerun) ==
  LET changed == updatesOf(s) # updatesOf(prev)
      cleaned == [s EXCEPT !.timeouts = clearTimeout(@, s.cleanup),
                           !.cleanup = 0]
      timeoutId == s.timeoutsSet + 1
      ran == IF s.projectId # NONE
             THEN [cleaned EXCEPT
                     !.timeouts = @ \cup {[id |-> timeoutId,
                                           delay |-> SaveDelay,
                                           projectId |-> s.projectId,
                                           updates |-> updatesOf(s)]},
                     !.cleanup = timeoutId, !.timeoutsSet = timeoutId]
             ELSE cleaned
  IN  IF changed THEN [ran EXCEPT !.idle = 0]
      ELSE IF s.projectId # prev.projectId \/ rerun THEN ran
      ELSE s

\* the callback of a timeout t: updateProject.mutate
timeoutCallback(s, t) ==
  apiRequest([s EXCEPT !.timeouts = @ \ {t}], "PATCH", "auto",
             t.projectId, t.updates)

\* handleSave up to its await
handleSave(s) ==
  IF s.projectId = NONE
  THEN apiRequest(s, "POST", "save", NONE,
                  [name |-> "Floorplan Project", currentStep |-> s.currentStep,
                   shapes |-> s.shapes, viewTransform |-> s.viewTransform])
  ELSE apiRequest(s, "PATCH", "save", s.projectId, updatesOf(s))

\* the server answers request n
respond(s, n, ok, result) ==
  [s EXCEPT !.requests = @ \ {n},
            !.responses = @ \cup {[seq |-> n, ok |-> ok, result |-> result]},
            !.issued[n].outcome = IF ok THEN "ok" ELSE "error"]

(* schema.ts *)
WizardStep == {"plot-size", "house-shape", "details", "export-save"}
\* insertProjectSchema.parse and insertProjectSchema.partial().parse of a
\* body the page sends: whether it does not throw.  The page's name, shapes
\* and viewTransform are of the schema's types; currentStep is the field
\* whose values the enum limits
parse(body) ==
  "currentStep" \in DOMAIN body => body.currentStep \in WizardStep

(* routes and storage *)
\* app.post("/api/projects") with MemStorage.createProject.  The number of
\* the request handled stands for the time new Date() reads
createProject(s, n) ==
  LET id == randomUUID(s.nextId)
      project == [id |-> id, createdAt |-> n, updatedAt |-> n]
                   @@ s.issued[n].body
  IN  IF ~parse(s.issued[n].body) THEN respond(s, n, FALSE, NULL)
      ELSE respond([s EXCEPT !.projects = (id :> project) @@ @, !.nextId = @ + 1],
                   n, TRUE, project)

\* app.patch("/api/projects/:id") with MemStorage.updateProject
updateProject(s, n) ==
  LET id == s.issued[n].id
      updates == s.issued[n].body
      project == s.projects[id]
      updatedProject == [id |-> project.id, createdAt |-> project.createdAt,
                         updatedAt |-> n] @@ updates @@ project
  IN  IF ~parse(updates) \/ id \notin DOMAIN s.projects
      THEN respond(s, n, FALSE, NULL)
      ELSE respond([s EXCEPT !.projects = (id :> updatedProject) @@ @],
                   n, TRUE, updatedProject)

\* the continuation of the await of the request a response answers
settled(s, resp) ==
  LET request == s.issued[resp.seq]
      rest == [s EXCEPT !.responses = @ \ {resp}]
  IN  CASE request.by = "init" ->
             IF resp.ok THEN [rest EXCEPT !.projectId = resp.result.id]
             ELSE rest
        [] request.by = "save" /\ request.method = "POST" ->
             IF resp.ok
             THEN [rest EXCEPT !.projectId = resp.result.id,
                               !.toast = "Project Created"]
             ELSE [rest EXCEPT !.toast = "Save Failed"]
        [] request.by = "save" /\ request.method = "PATCH" ->
             [rest EXCEPT !.toast = IF resp.ok THEN "Project Saved"
                                    ELSE "Save Failed"]
        [] OTHER -> rest

(***************************************************************************)
(* The events, as actions.  Each takes the inputs it may draw from and the *)
(* number of events a run may hold; the specifications below pass their    *)
(* own.  lastEvent records the event and what the handler saw.             *)
(***************************************************************************)
Fresh == [Cur EXCEPT !.toast = "none"]

\* the tools the points of s.currentPoints were placed with, when the
\* handler of ev made s of the present state: a press that does not add to
\* a polygon begins a drawing, and a handler that changes currentPoints
\* placed a point with the tool it found active
placing(s, ev) ==
  IF s.currentPoints = <<>> THEN {}
  ELSE IF s.currentPoints = currentPoints THEN placedWith
  ELSE IF ev.type = "mouseDown" /\ ~(isDrawing /\ activeTool = "polygon")
  THEN {activeTool}
  ELSE placedWith \cup {activeTool}

\* the render after a handler, with the effects it runs
Handled(s, ev) ==
  /\ \E rerun \in IF s.projectId = NONE THEN {FALSE} ELSE BOOLEAN :
       Becomes(autoSaveEffect(Cur, [s EXCEPT !.lastEvent = ev,
                                             !.nEvents = @ + 1,
                                             !.placedWith = placing(s, ev)],
                              rerun))
  /\ UNCHANGED probe

\* the render after a step that is not an event of the user
Stepped(s) ==
  /\ Becomes(autoSaveEffect(Cur, s, FALSE))
  /\ UNCHANGED probe

\* Toolbar onSave
Save(limit) ==
  /\ nEvents < limit
  /\ Handled(handleSave(Fresh), [type |-> "save"])

\* TickMs pass while a timeout waits: each pending timeout has that much
\* less to wait
Tick ==
  /\ \E t \in timeouts : t.delay > 0
  /\ Stepped([Cur EXCEPT
                !.timeouts = {[t EXCEPT !.delay = IF @ > TickMs THEN @ - TickMs
                                                 ELSE 0] : t \in @},
                !.idle = IF @ + TickMs < SaveDelay THEN @ + TickMs
                         ELSE SaveDelay])

\* the browser runs the callback of a timeout that is due
TimeoutFires ==
  \E t \in timeouts :
    /\ t.delay = 0
    /\ Stepped(timeoutCallback(Cur, t))

\* the server handles a request: requests reach it in any order
Serve ==
  \E n \in requests :
    Stepped(IF issued[n].method = "POST" THEN createProject(Cur, n)
            ELSE updateProject(Cur, n))

\* a request is lost on the way: apiRequest throws
RequestFails ==
  \E n \in requests : Stepped(respond(Cur, n, FALSE, NULL))

\* a response reaches the page
Settle ==
  \E resp \in responses : Stepped(settled(Fresh, resp))

\* the canvas position of a world point under the initial view
atWorld(w) ==
  worldToCanvas(w, initialViewTransform, DEFAULT_EDITING_DPI,
                EditorInitial.canvasSize.width, EditorInitial.canvasSize.height)

MouseDown(points, shiftKeys, altKeys, limit) ==
  /\ nEvents < limit
  /\ \E c \in points, shiftKey \in shiftKeys, altKey \in altKeys :
       Handled(handleMouseDown(Fresh, c, shiftKey, altKey),
               [type |-> "mouseDown", canvasPoint |-> c,
                shiftKey |-> shiftKey, altKey |-> altKey,
                shapes |-> shapes, doors |-> doors,
                selectedShapeId |-> selectedShapeId,
                doorPlacementMode |-> doorPlacementMode,
                panning |-> (spacePressed \/ activeTool = "pan")])

MouseMove(points, shiftKeys, altKeys, limit) ==
  /\ nEvents < limit
  /\ \E c \in points, shiftKey \in shiftKeys, altKey \in altKeys :
       Handled(handleMouseMove(Fresh, c, shiftKey, altKey),
               [type |-> "mouseMove", canvasPoint |-> c,
                shiftKey |-> shiftKey, altKey |-> altKey])

MouseUp(limit) ==
  /\ nEvents < limit
  /\ LET done(s) ==
           Handled(s, [type |-> "mouseUp",
                       afterMove |-> lastEvent.type = "mouseMove",
                       snapEnabled |-> snapEnabled, snapPoint |-> snapPoint,
                       created |-> IF Len(s.shapes) > Len(shapes)
                                   THEN s.shapes[Len(s.shapes)].id ELSE NONE])
     IN  done(handleMouseUp(Fresh))

\* a key press: the window's keydown listeners, the canvas's and the page's
KeyDown(keys, repeats, limit) ==
  /\ nEvents < limit
  /\ \E key \in keys, repeat \in repeats :
       Handled(pageKeyDown(Fresh, handleKeyDown(Fresh, key), key, repeat),
               [type |-> "keyDown", key |-> key, repeat |-> repeat,
                shapes |-> shapes, doors |-> doors])

\* PlotSizePanel onReset
Reset(limit) ==
  /\ nEvents < limit
  /\ Handled(handleReset(Fresh), [type |-> "reset"])

\* window keyup listener
KeyUp(keys, limit) ==
  /\ nEvents < limit
  /\ \E key \in keys :
       Handled(handleKeyUp(Fresh, key), [type |-> "keyUp", key |-> key])

\* Toolbar onToolChange={setActiveTool}
ToolChange(tools, limit) ==
  /\ nEvents < limit
  /\ \E tool \in tools :
       Handled([Fresh EXCEPT !.activeTool = tool], [type |-> "toolChange", tool |-> tool])

\* Toolbar onToggleSnap
ToggleSnap(limit) ==
  /\ nEvents < limit
  /\ Handled([Fresh EXCEPT !.snapEnabled = ~snapEnabled], [type |-> "toggleSnap"])

CreatePreset(sizes, limit) ==
  /\ nEvents < limit
  /\ \E size \in sizes :
       Handled(handleCreatePreset(Fresh, size.width, size.height),
               [type |-> "createPreset", size |-> size])

CreateHouseShape(shapeTypes, limit) ==
  /\ nEvents < limit
  /\ \E shapeType \in shapeTypes :
       Handled(handleCreateHouseShape(Fresh, shapeType),
               [type |-> "createHouseShape", shapeType |-> shapeType])

NextStep(limit) ==
  /\ nEvents < limit
  /\ Handled(handleNext(Fresh), [type |-> "next"])

\* the Previous button
PreviousStep(limit) ==
  /\ nEvents < limit
  /\ Handled(handlePrevious(Fresh), [type |-> "previous"])

\* a click on a button of the step indicator
StepClick(limit) ==
  /\ nEvents < limit
  /\ \E index \in 1..Len(steps) :
       Handled(stepClick(Fresh, index), [type |-> "stepClick", index |-> index])

\* AddDoorsPanel: a door type with one of its widths
AddDoor(kinds, limit) ==
  /\ nEvents < limit
  /\ \E kind \in kinds :
       Handled(handleAddDoor(Fresh, kind.doorType, kind.width),
               [type |-> "addDoor", doorType |-> kind.doorType, width |-> kind.width])

EditorInit == EditorIs(EditorInitial) /\ probe = [op |-> "none"]

(***************************************************************************)
(* SpecDraw: drawing lines and rectangles with the grid snap on or off     *)
(***************************************************************************)
MaxDrawEvents == 9
\* an on-grid corner, and a point 0.3 ft off the grid point (100, 140)
DrawPoints == {atWorld(Pt(I(90), I(130))), atWorld(Pt(R(1003, 10), I(140)))}
DrawTools  == {"line", "rectangle"}

DrawToolChange == ToolChange(DrawTools, MaxDrawEvents)
DrawToggleSnap == ToggleSnap(MaxDrawEvents)
DrawMouseDown  == MouseDown(DrawPoints, {FALSE}, {FALSE}, MaxDrawEvents)
DrawMouseMove  == MouseMove(DrawPoints, {FALSE}, {FALSE}, MaxDrawEvents)
DrawMouseUp    == MouseUp(MaxDrawEvents)

DrawNext == \/ DrawToolChange \/ DrawToggleSnap
            \/ DrawMouseDown \/ DrawMouseMove \/ DrawMouseUp
SpecDraw == EditorInit /\ [][DrawNext]_vars

\* C3: when a shape is created by releasing the pointer right after a move
\* made with snapping enabled, and that move found a vertex-snap target, the
\* target is a vertex of the new shape
C3_SnapTargetPlaced ==
  (/\ lastEvent.type = "mouseUp"
   /\ lastEvent.created # NONE
   /\ lastEvent.afterMove /\ lastEvent.snapEnabled
   /\ lastEvent.snapPoint # NULL)
  => \E i \in 1..Len(find(shapes, lastEvent.created).vertices) :
        find(shapes, lastEvent.created).vertices[i] = lastEvent.snapPoint

(***************************************************************************)
(* SpecDrag: a preset plot moved and turned by its handles with the select *)
(* tool.  The pointer visits the centre handle, the rotate handle, the     *)
(* east handle and two points on the axes through the plot's centre, so    *)
(* that every angle taken is a whole number of quarter turns.              *)
(***************************************************************************)
MaxDragEvents == 6
SheetCenter == Pt(Div(A2_WIDTH_FT, I(2)), Div(A2_HEIGHT_FT, I(2)))
DragPresets == {[width |-> I(40), height |-> I(60)]}
\* the rotate handle of the preset plot: 30 px above the middle of its top
DragRotateHandle ==
  Pt(atWorld(SheetCenter).x, Sub(atWorld(Pt(SheetCenter.x, Sub(SheetCenter.y, I(30)))).y, I(30)))
DragPoints ==
  { atWorld(SheetCenter),
    DragRotateHandle,
    atWorld(Pt(Add(SheetCenter.x, I(30)), SheetCenter.y)) }

DragCreatePreset == CreatePreset(DragPresets, MaxDragEvents)
DragMouseDown    == MouseDown(DragPoints, {FALSE}, {FALSE}, MaxDragEvents)
DragMouseMove    == MouseMove(DragPoints, BOOLEAN, BOOLEAN, MaxDragEvents)
DragMouseUp      == MouseUp(MaxDragEvents)

DragNext == \/ DragCreatePreset \/ DragMouseDown \/ DragMouseMove \/ DragMouseUp
SpecDrag == EditorInit /\ [][DragNext]_vars

\* the shape a handle drag is moving, when the last event was a pointer move
\* handled by the drag branch
Dragged == find(shapes, dragState.shapeId)
DragMoved(handle) ==
  /\ lastEvent.type = "mouseMove"
  /\ ~isPanning /\ doorDragState = NULL
  /\ dragState # NULL /\ dragState.handle = handle
  /\ Dragged # NULL

\* C4: after a pointer move of a centre-handle drag the shape has the
\* drag-start vertices, in their order, each shifted by exactly the pointer's
\* world position minus the drag's start point, and the rotation it had when
\* the drag began
C4_CenterDragTranslates ==
  DragMoved("center") =>
    /\ Len(Dragged.vertices) = Len(dragState.originalVertices)
    /\ \A i \in 1..Len(dragState.originalVertices) :
         Dragged.vertices[i] =
           Pt(Add(dragState.originalVertices[i].x,
                  Sub(mousePosition.x, dragState.startPoint.x)),
              Add(dragState.originalVertices[i].y,
                  Sub(mousePosition.y, dragState.startPoint.y)))
    /\ Dragged.rotation = dragStartRotation

\* a turned plot dragged by its centre handle to another place
C4_Witness ==
  /\ DragMoved("center")
  /\ mousePosition # dragState.startPoint
  /\ Dragged.vertices # dragState.originalVertices
  /\ dragStartRotation = I(90)
  /\ Dragged.rotation = I(90)

\* two angles in degrees that differ by whole turns
SameTurn(a, b) == Sub(a, b)[2] = 1 /\ Sub(a, b)[1] % 360 = 0

\* the centre of the bounding box of a vertex list
BoxCenter(vs) == Pt(Div(Add(MinOf(Xs(vs)), MaxOf(Xs(vs))), I(2)),
                    Div(Add(MinOf(Ys(vs)), MaxOf(Ys(vs))), I(2)))

\* C7: after every pointer move of a rotate-handle drag (no modifier held)
\* the shape's rotation is its rotation at drag start plus the angle from
\* (centre to start point) to (centre to pointer), however many moves came
\* before, and its vertices are the drag-start vertices
C7_RotationFromDragStart ==
  (DragMoved("rotate") /\ ~lastEvent.shiftKey) =>
    /\ SameTurn(Dragged.rotation,
                Add(dragStartRotation,
                    calculateRotationAngle(BoxCenter(dragState.originalVertices),
                                           mousePosition, dragState.startPoint)))
    /\ Dragged.vertices = dragState.originalVertices

\* C8: for a selected shape with a rotation, the handle findHandleAtPoint
\* finds under a pressed pointer is the handle drawHandles paints there:
\* the first painted handle within its hit radius of the pointer, none when
\* no painted handle is that near
C8_HitTestFollowsRotation ==
  (/\ lastEvent.type = "mouseDown"
   /\ lastEvent.selectedShapeId # NONE
   /\ find(lastEvent.shapes, lastEvent.selectedShapeId) # NULL
   /\ find(lastEvent.shapes, lastEvent.selectedShapeId).rotation # I(0))
  => findHandleAtPoint(find(lastEvent.shapes, lastEvent.selectedShapeId),
                       lastEvent.canvasPoint, viewTransform, canvasSize)
     = firstHandleHit(drawHandles(find(lastEvent.shapes, lastEvent.selectedShapeId),
                                  viewTransform, canvasSize),
                      lastEvent.canvasPoint)

(***************************************************************************)
(* SpecDoor: a plot, a house on it, and doors placed on the house's walls  *)
(***************************************************************************)
MaxDoorEvents == 5
DoorPresets == {[width |-> I(40), height |-> I(60)]}
DoorHouses  == {"rectangular", "l-shaped"}
DoorKinds   == {[doorType |-> "single", width |-> I(3)],
                [doorType |-> "double", width |-> I(6)]}
DoorTools   == {"select", "pan"}
DoorKeys    == {"Space"}
\* clicks east of the sheet centre: on the house's east wall (5 ft out),
\* half a foot and exactly one foot outside it, three feet outside it, and
\* on the plot's east edge (20 ft out)
DoorPoints ==
  { atWorld(Pt(Add(SheetCenter.x, d), Sub(SheetCenter.y, I(2)))) :
      d \in {I(5), R(11, 2), I(6), I(8), I(20)} }

DoorCreatePreset     == CreatePreset(DoorPresets, MaxDoorEvents)
DoorCreateHouseShape == CreateHouseShape(DoorHouses, MaxDoorEvents)
DoorAddDoor          == AddDoor(DoorKinds, MaxDoorEvents)
DoorToolChange       == ToolChange(DoorTools, MaxDoorEvents)
DoorKeyDown          == KeyDown(DoorKeys, BOOLEAN, MaxDoorEvents)
DoorKeyUp            == KeyUp(DoorKeys, MaxDoorEvents)
DoorMouseDown        == MouseDown(DoorPoints, {FALSE}, {FALSE}, MaxDoorEvents)

DoorNext == \/ DoorCreatePreset \/ DoorCreateHouseShape \/ DoorAddDoor
            \/ DoorToolChange \/ DoorKeyDown \/ DoorKeyUp \/ DoorMouseDown
SpecDoor == EditorInit /\ [][DoorNext]_vars

\* the world point of the last pointer event
LastWorldPoint == pointerWorld(Cur, lastEvent.canvasPoint)

\* the point is at least one foot from every edge of every house- or
\* wall-layer shape: a line's one segment, a freehand path's consecutive
\* segments, a polygon's or rectangle's closed outline
FarFromWalls(shapeList, p) ==
  \A k \in 1..Len(shapeList) :
    shapeList[k].layer \in {"house", "wall"} =>
      \A i \in 1..Len(shapeList[k].vertices) :
        LET vs == shapeList[k].vertices
            j  == (i % Len(vs)) + 1
        IN  \/ shapeList[k].type = "line" /\ i > 1
            \/ shapeList[k].type = "freehand" /\ i = Len(vs)
            \/ ~HypotLt(distanceToSegment(p, vs[i], vs[j]), I(1))

\* a click in door-placement mode at a point far from every wall
RejectedClick ==
  /\ lastEvent.type = "mouseDown"
  /\ lastEvent.doorPlacementMode.active
  /\ FarFromWalls(lastEvent.shapes, LastWorldPoint)

\* C10 as stated: every such click leaves the doors, the shapes and the
\* door-placement mode as they were and raises 'Invalid Placement'
C10_RejectedClickNotifies ==
  RejectedClick =>
    /\ doors = lastEvent.doors
    /\ shapes = lastEvent.shapes
    /\ doorPlacementMode = lastEvent.doorPlacementMode
    /\ toast = "Invalid Placement"

\* C10: a click in door-placement mode at a point far from every wall, made
\* with neither the pan tool active nor the space bar held, creates no door:
\* the doors, the shapes and the door-placement mode are as they were and
\* 'Invalid Placement' is raised
C10_RejectedClickUnlessPanning ==
  (RejectedClick /\ ~lastEvent.panning) =>
    /\ doors = lastEvent.doors
    /\ shapes = lastEvent.shapes
    /\ doorPlacementMode = lastEvent.doorPlacementMode
    /\ toast = "Invalid Placement"

\* a click exactly one foot outside the east wall of a house, rejected
C10_Witness ==
  /\ RejectedClick /\ ~lastEvent.panning
  /\ \E k \in 1..Len(shapes) : shapes[k].layer = "house"
  /\ lastEvent.canvasPoint = atWorld(Pt(Add(SheetCenter.x, I(6)), Sub(SheetCenter.y, I(2))))
  /\ doors = <<>>
  /\ toast = "Invalid Placement"

(***************************************************************************)
(* SpecTransform: the handle transforms applied to bounded inputs: the     *)
(* editor's improvedTransformVertices and the server's                     *)
(* applyMidpointScaling and applyCornerDrag                                *)
(***************************************************************************)
\* a 10 x 10 box, a 10 x 20 box, an L-shaped outline, a vertical line (a
\* bounding box of zero width) and a doubled point (zero width and height)
TransformShapes ==
  { << Pt(I(0), I(0)), Pt(I(10), I(0)), Pt(I(10), I(10)), Pt(I(0), I(10)) >>,
    << Pt(I(0), I(0)), Pt(I(10), I(0)), Pt(I(10), I(20)), Pt(I(0), I(20)) >>,
    << Pt(I(0), I(0)), Pt(I(10), I(0)), Pt(I(10), I(5)), Pt(I(5), I(5)),
       Pt(I(5), I(10)), Pt(I(0), I(10)) >>,
    << Pt(I(0), I(0)), Pt(I(0), I(10)) >>,
    << Pt(I(3), I(3)), Pt(I(3), I(3)) >> }
TransformHandles == {"n", "s", "e", "w", "nw", "ne", "se", "sw", "center"}
TransformStarts  == {Pt(I(5), I(0)), Pt(I(10), I(10)), Pt(I(0), I(5))}
TransformTargets == {Pt(I(5), I(2)), Pt(I(14), I(12)), Pt(I(-2), I(5)), Pt(R(7, 2), I(-1))}

TransformInit ==
  /\ EditorIs(EditorInitial)
  /\ \E vs \in TransformShapes, h \in TransformHandles,
        sp \in TransformStarts, cp \in TransformTargets,
        shiftKey \in BOOLEAN, altKey \in BOOLEAN :
       probe = [op |-> "drag", vertices |-> vs, handle |-> h, startPoint |-> sp,
                currentPoint |-> cp, shiftKey |-> shiftKey, altKey |-> altKey]

\* the editor's transform of the drag
ClientTransform ==
  /\ probe.op = "drag"
  /\ probe' = [probe EXCEPT !.op = "improvedTransformVertices"] @@
              [result |-> improvedTransformVertices(probe.vertices, probe.handle,
                            probe.startPoint, probe.currentPoint,
                            probe.shiftKey, probe.altKey,
                            [id |-> randomUUID(1), type |-> "polygon",
                             vertices |-> probe.vertices, layer |-> "default",
                             rotation |-> I(0)]).vertices]
  /\ UNCHANGED editorVars

\* the server's edge scaling of the drag; Alt is the symmetric modifier
ServerMidpointScaling ==
  /\ probe.op = "drag"
  /\ probe' = [probe EXCEPT !.op = "applyMidpointScaling"] @@
              [result |-> applyMidpointScaling(probe.handle, probe.currentPoint,
                                               probe.vertices, probe.altKey)]
  /\ UNCHANGED editorVars

\* the server's corner drag; Shift is the aspect lock, Alt the symmetric
\* modifier
ServerCornerDrag ==
  /\ probe.op = "drag"
  /\ probe' = [probe EXCEPT !.op = "applyCornerDrag"] @@
              [result |-> applyCornerDrag(probe.handle, probe.currentPoint,
                                          probe.vertices, probe.shiftKey, probe.altKey)]
  /\ UNCHANGED editorVars

TransformNext == ClientTransform \/ ServerMidpointScaling \/ ServerCornerDrag
SpecTransform == TransformInit /\ [][TransformNext]_vars

Transformed == probe.op \in {"improvedTransformVertices", "applyMidpointScaling",
                             "applyCornerDrag"}
BoxWidth(vs)  == Sub(MaxOf(Xs(vs)), MinOf(Xs(vs)))
BoxHeight(vs) == Sub(MaxOf(Ys(vs)), MinOf(Ys(vs)))

\* C5: with the symmetric modifier held, an edge-handle drag by the editor or
\* by the server's edge scaling keeps the centre of the bounding box where
\* it was: the opposite edge moves by the opposite amount
C5_SymmetricEdgeKeepsCenter ==
  (/\ probe.op \in {"improvedTransformVertices", "applyMidpointScaling"}
   /\ probe.handle \in {"n", "s", "e", "w"}
   /\ probe.altKey
   /\ BoxWidth(probe.vertices) # I(0) /\ BoxHeight(probe.vertices) # I(0))
  => BoxCenter(probe.result) = BoxCenter(probe.vertices)

\* the corner of the bounding box opposite a corner handle
OppositeCorner(vs, handle) ==
  Pt(IF handle \in {"nw", "sw"} THEN MaxOf(Xs(vs)) ELSE MinOf(Xs(vs)),
     IF handle \in {"nw", "ne"} THEN MaxOf(Ys(vs)) ELSE MinOf(Ys(vs)))

\* the point is a corner of the bounding box of the vertex list
IsBoxCorner(vs, p) ==
  /\ p.x \in {MinOf(Xs(vs)), MaxOf(Xs(vs))}
  /\ p.y \in {MinOf(Ys(vs)), MaxOf(Ys(vs))}

\* C6: with the aspect lock held, a corner-handle drag by the editor or by
\* the server's corner drag gives a bounding box of the drag-start
\* width/height ratio of which the drag-start corner opposite the handle is
\* still a corner
C6_AspectLockedCorner ==
  (/\ probe.op \in {"improvedTransformVertices", "applyCornerDrag"}
   /\ probe.handle \in {"nw", "ne", "se", "sw"}
   /\ probe.shiftKey /\ ~probe.altKey
   /\ BoxWidth(probe.vertices) # I(0) /\ BoxHeight(probe.vertices) # I(0))
  => /\ Mul(BoxWidth(probe.result), BoxHeight(probe.vertices))
          = Mul(BoxHeight(probe.result), BoxWidth(probe.vertices))
     /\ IsBoxCorner(probe.result, OppositeCorner(probe.vertices, probe.handle))

\* C9: the transform of a vertex list whose bounding box has zero width or
\* zero height has only finite coordinates
C9_DegenerateStaysFinite ==
  (/\ Transformed
   /\ (BoxWidth(probe.vertices) = I(0) \/ BoxHeight(probe.vertices) = I(0)))
  => \A i \in 1..Len(probe.result) : IsFinitePoint(probe.result[i])

(***************************************************************************)
(* SpecCoord: the coordinate engine applied to bounded inputs              *)
(***************************************************************************)
CoordPoints == {Pt(x, y) : x \in {I(90), R(1003, 10), R(383, 4)},
                           y \in {I(130), I(140), R(271, 2)}}
CoordZooms  == {R(1, 10), R(1, 2), I(1), R(6, 5), I(5)}
CoordPans   == {I(-30), I(0), I(17)}
CoordDPIs   == ExportDPI
CoordSizes  == {[width |-> I(800), height |-> I(600)],
                [width |-> I(1025), height |-> I(768)]}

CoordInit ==
  /\ EditorIs(EditorInitial)
  /\ \E p \in CoordPoints, z \in CoordZooms, px \in CoordPans, py \in CoordPans,
        d \in CoordDPIs, sz \in CoordSizes :
       probe = [op |-> "input", p |-> p,
                vt |-> [panX |-> px, panY |-> py, zoom |-> z],
                dpi |-> d, size |-> sz]

\* worldToCanvas, then canvasToWorld of its result
RoundTrip ==
  /\ probe.op = "input"
  /\ LET c == worldToCanvas(probe.p, probe.vt, probe.dpi,
                            probe.size.width, probe.size.height)
         b == canvasToWorld(c, probe.vt, probe.dpi,
                            probe.size.width, probe.size.height)
     IN  probe' = [op |-> "roundTrip", p |-> probe.p, vt |-> probe.vt,
                   dpi |-> probe.dpi, size |-> probe.size,
                   canvas |-> c, back |-> b]
  /\ UNCHANGED editorVars

\* the client's and the export engine's pixelsPerFoot of the same DPI
BothPixelsPerFoot ==
  /\ probe.op = "input"
  /\ probe' = [op |-> "pixelsPerFoot", dpi |-> probe.dpi,
               client |-> pixelsPerFoot(probe.dpi),
               server |-> exportPixelsPerFoot(probe.dpi)]
  /\ UNCHANGED editorVars

CoordNext == RoundTrip \/ BothPixelsPerFoot
SpecCoord == CoordInit /\ [][CoordNext]_vars

\* C1: canvasToWorld(worldToCanvas(p, vt, dpi, w, h), vt, dpi, w, h) = p for
\* every world point, view transform with zoom > 0, DPI and viewport size
C1_RoundTrip ==
  probe.op = "roundTrip" => (Gt(probe.vt.zoom, I(0)) => probe.back = probe.p)

\* the round trip of a point away from the sheet centre under a zoomed and
\* panned view, whose canvas image differs from the world point
C1_Witness ==
  /\ probe.op = "roundTrip"
  /\ probe.vt.zoom = R(6, 5) /\ probe.vt.panX = I(17) /\ probe.vt.panY = I(-30)
  /\ probe.p = Pt(R(1003, 10), I(140))
  /\ probe.canvas # probe.p
  /\ probe.back = probe.p

\* C2: for each export DPI the client's and the export engine's
\* pixelsPerFoot agree and equal the documented dpi / 3.1
C2_PixelsPerFootAgree ==
  (probe.op = "pixelsPerFoot" /\ probe.dpi \in ExportDPI) =>
     /\ probe.client = probe.server
     /\ probe.client = Div(I(probe.dpi), R(31, 10))

(***************************************************************************)
(* SpecWall: findWallSegmentAtPoint applied to bounded lists of shapes     *)
(***************************************************************************)
WallShape(id, type, layer, vertices) ==
  [id |-> id, type |-> type, vertices |-> vertices, layer |-> layer,
   rotation |-> I(0)]

\* a 4 x 4 house, a plot around it, a wall line along the house's east
\* edge, a line on no wall layer, an open freehand path on the house layer
\* whose last vertex is not joined to its first, a diagonal wall line, and a
\* house line drawn without moving the pointer (both vertices the same)
WallPool ==
  { WallShape("house", "polygon", "house",
              << Pt(I(0), I(0)), Pt(I(4), I(0)), Pt(I(4), I(4)), Pt(I(0), I(4)) >>),
    WallShape("plot", "rectangle", "plot",
              << Pt(I(-1), I(-1)), Pt(I(5), I(-1)), Pt(I(5), I(5)), Pt(I(-1), I(5)) >>),
    WallShape("wall", "line", "wall", << Pt(I(4), I(0)), Pt(I(4), I(4)) >>),
    WallShape("sketch", "line", "default", << Pt(I(5), I(0)), Pt(I(5), I(4)) >>),
    WallShape("path", "freehand", "house",
              << Pt(I(6), I(0)), Pt(I(6), I(4)), Pt(I(2), I(4)) >>),
    WallShape("brace", "line", "wall", << Pt(I(4), I(4)), Pt(I(6), I(6)) >>),
    WallShape("dot", "line", "house", << Pt(I(5), I(2)), Pt(I(5), I(2)) >>) }

WallShapeLists ==
  { <<a>> : a \in WallPool } \cup
  { <<a, b>> : a \in WallPool, b \in WallPool }

WallPoints ==
  { Pt(x, y) : x \in {R(9, 2), I(5), R(11, 2)}, y \in {I(-1), I(2), R(9, 2)} }
    \cup {Pt(I(2), I(2)), Pt(I(6), I(2))}

\* the default of the parameter, and the looser one a door drag passes
WallThresholds == {I(1), I(2)}

WallInit ==
  /\ EditorIs(EditorInitial)
  /\ \E l \in WallShapeLists, p \in WallPoints, th \in WallThresholds :
       probe = [op |-> "input", shapes |-> l, point |-> p, threshold |-> th]

FindWallSegment ==
  /\ probe.op = "input"
  /\ probe' = [probe EXCEPT !.op = "findWallSegmentAtPoint"] @@
              [result |-> findWallSegmentAtPoint(probe.shapes, probe.point,
                                                 probe.threshold)]
  /\ UNCHANGED editorVars

WallNext == FindWallSegment
SpecWall == WallInit /\ [][WallNext]_vars

\* the edges of the wall-eligible shapes, as <<shape index, 0-based edge
\* index>>: a line's one segment, a freehand path's consecutive segments, a
\* polygon's or rectangle's closed outline
WallEdges(shapeList) ==
  { e \in (1..Len(shapeList)) \X (0..3) :
      LET sh == shapeList[e[1]]
          n  == Len(sh.vertices)
      IN  /\ sh.layer \in {"house", "wall"}
          /\ e[2] < n
          /\ sh.type = "line" => e[2] = 0
          /\ sh.type = "freehand" => e[2] < n - 1 }

\* the distance from the point to its clamped projection onto the edge
EdgeDistance(shapeList, e, p) ==
  LET vs == shapeList[e[1]].vertices
  IN  distanceToSegment(p, vs[e[2] + 1], vs[((e[2] + 1) % Len(vs)) + 1])

EdgeBefore(e, f) == e[1] < f[1] \/ (e[1] = f[1] /\ e[2] < f[2])

\* the first edge in iteration order among those at the least distance
ClosestEdge(shapeList, p) ==
  CHOOSE e \in WallEdges(shapeList) :
    \A f \in WallEdges(shapeList) \ {e} :
       \/ HypotLtHypot(EdgeDistance(shapeList, e, p), EdgeDistance(shapeList, f, p))
       \/ /\ ~HypotLtHypot(EdgeDistance(shapeList, f, p), EdgeDistance(shapeList, e, p))
          /\ EdgeBefore(e, f)

\* the outcome C11 describes for the shapes, the point and the threshold
WallSegmentExpected(result, shapeList, p, threshold) ==
  IF \E e \in WallEdges(shapeList) : HypotLt(EdgeDistance(shapeList, e, p), threshold)
  THEN LET e == ClosestEdge(shapeList, p)
       IN  /\ result # NULL
           /\ result.shape = shapeList[e[1]]
           /\ result.segmentIndex = e[2]
           /\ HypotIsZero(EdgeDistance(shapeList, e, result.closestPoint))
  ELSE result = NULL

\* C11: findWallSegmentAtPoint returns the first edge, in iteration order,
\* at the least clamped-projection distance among the edges of the house-
\* and wall-layer shapes when that distance is below the threshold, with a
\* closestPoint on that edge, and null when no such edge is within the
\* threshold
C11_ClosestWallSegment ==
  probe.op = "findWallSegmentAtPoint" =>
    WallSegmentExpected(probe.result, probe.shapes, probe.point, probe.threshold)

(***************************************************************************)
(* SpecSlide: a door placed on a rectangular house and dragged by its      *)
(* centre                                                                   *)
(***************************************************************************)
MaxSlideEvents == 7
SlidePresets == {[width |-> I(40), height |-> I(60)]}
SlideHouses  == {"rectangular"}
SlideKinds   == {[doorType |-> "single", width |-> I(3)]}
\* pointer positions around the house, whose north wall runs 5 ft above the
\* sheet centre and whose east wall 5 ft right of it: on the north wall, one
\* foot above the north wall, one foot right of the east wall near the
\* north-east corner, and far from every wall
SlidePoints ==
  { atWorld(Pt(Add(SheetCenter.x, I(2)), Sub(SheetCenter.y, I(5)))),
    atWorld(Pt(Sub(SheetCenter.x, I(2)), Sub(SheetCenter.y, I(6)))),
    atWorld(Pt(Add(SheetCenter.x, I(6)), Sub(SheetCenter.y, I(3)))),
    atWorld(Pt(Add(SheetCenter.x, I(15)), SheetCenter.y)) }

SlideCreatePreset     == CreatePreset(SlidePresets, MaxSlideEvents)
SlideCreateHouseShape == CreateHouseShape(SlideHouses, MaxSlideEvents)
SlideAddDoor          == AddDoor(SlideKinds, MaxSlideEvents)
SlideMouseDown        == MouseDown(SlidePoints, {FALSE}, {FALSE}, MaxSlideEvents)
SlideMouseMove        == MouseMove(SlidePoints, {FALSE}, {FALSE}, MaxSlideEvents)
SlideMouseUp          == MouseUp(MaxSlideEvents)

SlideNext == \/ SlideCreatePreset \/ SlideCreateHouseShape \/ SlideAddDoor
             \/ SlideMouseDown \/ SlideMouseMove \/ SlideMouseUp
SpecSlide == EditorInit /\ [][SlideNext]_vars

\* the door being dragged and the shape its wallShapeId names
DraggedDoor == find(doors, doorDragState.doorId)
HostOf(door) == find(shapes, door.wallShapeId)

\* the door's position lies on the segment wallSegmentIndex of its host
OnHostSegment(door) ==
  LET vs == HostOf(door).vertices
  IN  HypotIsZero(distanceToSegment(door.position, vs[door.wallSegmentIndex + 1],
                                    vs[((door.wallSegmentIndex + 1) % Len(vs)) + 1]))

\* a pointer move during a drag of a door by the given handles, the door and
\* its host being there
DoorDragMoved(doorHandles) ==
  /\ lastEvent.type = "mouseMove" /\ ~isPanning
  /\ doorDragState # NULL /\ doorDragState.handle \in doorHandles
  /\ DraggedDoor # NULL
  /\ HostOf(DraggedDoor) # NULL

\* C12: after every pointer move of a centre-handle drag of a door whose
\* host shape is as it was when the door was placed, the door's position
\* lies on the host's segment wallSegmentIndex
C12_DoorStaysOnSegment ==
  (DoorDragMoved({"center"})
     /\ HostOf(DraggedDoor).vertices =
          houseVertices("rectangular", SheetCenter.x, SheetCenter.y))
    => OnHostSegment(DraggedDoor)

(***************************************************************************)
(* SpecResize: a house narrowed by its north-east corner handle, a door    *)
(* placed on its north wall and resized by its end handles.  Every pointer *)
(* position is on the line of the north wall.  The session is one the user *)
(* can hold: the plot, then the house, then pointer gestures and one Add   *)
(* Door; the pointer is pressed while no drag is on, moved while one is,   *)
(* and released to end one.                                                *)
(***************************************************************************)
MaxResizeEvents == 11
ResizePresets == {[width |-> I(40), height |-> I(60)]}
ResizeHouses  == {"rectangular"}
ResizeKinds   == {[doorType |-> "single", width |-> I(3)]}
NorthWallAt(dx) == atWorld(Pt(Add(SheetCenter.x, dx), Sub(SheetCenter.y, I(5))))
\* the house's north-east corner, a point of the north wall one foot from
\* its west end, and the end handle of a 3 ft door centred there
ResizePoints == {NorthWallAt(I(5)), NorthWallAt(I(-4)), NorthWallAt(R(-5, 2))}
ResizeTargets == {NorthWallAt(I(5)), NorthWallAt(I(-4))}

Dragging == dragState # NULL \/ doorDragState # NULL

ResizeCreatePreset     == shapes = <<>> /\ CreatePreset(ResizePresets, MaxResizeEvents)
ResizeCreateHouseShape ==
  Len(shapes) = 1 /\ CreateHouseShape(ResizeHouses, MaxResizeEvents)
ResizeAddDoor ==
  /\ Len(shapes) = 2 /\ doors = <<>> /\ ~doorPlacementMode.active /\ ~Dragging
  /\ AddDoor(ResizeKinds, MaxResizeEvents)
ResizeMouseDown ==
  /\ Len(shapes) = 2 /\ ~Dragging
  /\ MouseDown(ResizePoints, {FALSE}, {FALSE}, MaxResizeEvents)
ResizeMouseMove ==
  Dragging /\ MouseMove(ResizeTargets, {FALSE}, {FALSE}, MaxResizeEvents)
ResizeMouseUp == Dragging /\ MouseUp(MaxResizeEvents)

ResizeNext == \/ ResizeCreatePreset \/ ResizeCreateHouseShape \/ ResizeAddDoor
              \/ ResizeMouseDown \/ ResizeMouseMove \/ ResizeMouseUp
SpecResize == EditorInit /\ [][ResizeNext]_vars

\* the length of the segment wallSegmentIndex of the door's host
HostSegmentLength(door) ==
  LET vs == HostOf(door).vertices
      v1 == vs[door.wallSegmentIndex + 1]
      v2 == vs[((door.wallSegmentIndex + 1) % Len(vs)) + 1]
  IN  MathSqrt(HypotSq(Hypot(Sub(v2.x, v1.x), Sub(v2.y, v1.y))))

\* C13: after every pointer move of a start- or end-handle drag of a door,
\* the door's width is at least 2 ft and at most the length of its host
\* wall segment
C13_DoorWidthWithinWall ==
  DoorDragMoved({"start", "end"}) =>
    /\ Ge(DraggedDoor.width, I(2))
    /\ Le(DraggedDoor.width, HostSegmentLength(DraggedDoor))

(***************************************************************************)
(* SpecOrphan: a door placed on a house whose shape is then removed, by    *)
(* the Delete key, the delete tool, the plot reset or a new preset plot    *)
(***************************************************************************)
MaxOrphanEvents == 6
OrphanPresets == {[width |-> I(40), height |-> I(60)]}
OrphanHouses  == {"rectangular"}
OrphanKinds   == {[doorType |-> "single", width |-> I(3)]}
\* Delete, and the shortcut of the delete tool
OrphanKeys    == {"Delete", "6"}
\* a point of the house's north wall, and the middle of the house
OrphanPoints ==
  { atWorld(Pt(Add(SheetCenter.x, I(2)), Sub(SheetCenter.y, I(5)))),
    atWorld(SheetCenter) }

OrphanCreatePreset     == CreatePreset(OrphanPresets, MaxOrphanEvents)
OrphanCreateHouseShape ==
  /\ \A k \in 1..Len(shapes) : shapes[k].layer # "house"
  /\ CreateHouseShape(OrphanHouses, MaxOrphanEvents)
OrphanAddDoor          ==
  doors = <<>> /\ ~doorPlacementMode.active /\ AddDoor(OrphanKinds, MaxOrphanEvents)
OrphanReset            == shapes # <<>> /\ Reset(MaxOrphanEvents)
OrphanKeyDown          == KeyDown(OrphanKeys, {FALSE}, MaxOrphanEvents)
OrphanMouseDown        == MouseDown(OrphanPoints, {FALSE}, {FALSE}, MaxOrphanEvents)
OrphanMouseMove        == MouseMove(OrphanPoints, {FALSE}, {FALSE}, MaxOrphanEvents)
OrphanMouseUp          == Dragging /\ MouseUp(MaxOrphanEvents)

OrphanNext == \/ OrphanCreatePreset \/ OrphanCreateHouseShape \/ OrphanAddDoor
              \/ OrphanReset \/ OrphanKeyDown
              \/ OrphanMouseDown \/ OrphanMouseMove \/ OrphanMouseUp
SpecOrphan == EditorInit /\ [][OrphanNext]_vars

\* the doors of the list whose wallShapeId names no shape of the list
Orphaned(doorList, shapeList) ==
  { doorList[i].id : i \in { j \in 1..Len(doorList) :
                               find(shapeList, doorList[j].wallShapeId) = NULL } }

SkinDrawn(id) == \E i \in 1..Len(drawnDoorSkins(Cur)) : drawnDoorSkins(Cur)[i].id = id

\* C14, rendering: no skin is painted for an orphaned door
OrphanNotDrawn == \A id \in Orphaned(doors, shapes) : ~SkinDrawn(id)

\* C14, mouse-down: a press while a door is orphaned starts no drag of it
OrphanNotPressed ==
  lastEvent.type = "mouseDown" =>
    \A id \in Orphaned(lastEvent.doors, lastEvent.shapes) :
       doorDragState = NULL \/ doorDragState.doorId # id

\* C14, hover: a pointer move that updates the hover never hovers an
\* orphaned door
OrphanNotHovered ==
  (lastEvent.type = "mouseMove" /\ activeTool = "select" /\ ~Dragging /\ ~isPanning) =>
    \A id \in Orphaned(doors, shapes) : hoveredDoorId # id

\* C14: once the shape a door's wallShapeId names has been removed, no skin
\* is painted for the door, a press starts no drag of it and a pointer move
\* does not hover it
C14_OrphanedDoorExcluded ==
  OrphanNotDrawn /\ OrphanNotPressed /\ OrphanNotHovered

(***************************************************************************)
(* SpecRoof: detectRoofSections applied to bounded shapes                  *)
(***************************************************************************)
Poly(coords) == [i \in 1..Len(coords) |-> Pt(I(coords[i][1]), I(coords[i][2]))]

\* the vertex list started at each of its vertices, in both windings
Turned(vs, k) == [i \in 1..Len(vs) |-> vs[((i + k - 1) % Len(vs)) + 1]]
Reversed(vs) == [i \in 1..Len(vs) |-> vs[Len(vs) + 1 - i]]
Windings(vs) ==
  { Turned(vs, k) : k \in 0..(Len(vs) - 1) } \cup
  { Turned(Reversed(vs), k) : k \in 0..(Len(vs) - 1) }

\* the outline mirrored in x (sx = -1) and in y (sy = -1)
Mirrored(vs, sx, sy) ==
  [i \in 1..Len(vs) |-> Pt(Mul(I(sx), vs[i].x), Mul(I(sy), vs[i].y))]
Orientations(vs) == { Mirrored(vs, sx, sy) : sx \in {1, -1}, sy \in {1, -1} }

\* two boxes; the L-shaped and the mirror-l outline of handleCreateHouseShape
\* and an L with unequal arms, each in its four orientations
RoofRectangles ==
  { Poly(<< <<0, 0>>, <<10, 0>>, <<10, 10>>, <<0, 10>> >>),
    Poly(<< <<2, 3>>, <<12, 3>>, <<12, 8>>, <<2, 8>> >>) }
RoofLShapes ==
  UNION { Orientations(vs) :
            vs \in { houseVertices("l-shaped", I(0), I(0)),
                     houseVertices("mirror-l", I(0), I(0)),
                     Poly(<< <<0, 0>>, <<12, 0>>, <<12, 3>>, <<4, 3>>,
                             <<4, 9>>, <<0, 9>> >>) } }
\* outlines with a slanted edge: a triangle, a parallelogram, a diamond, a
\* pentagon, and a box with one corner cut
RoofSlanted ==
  { Poly(<< <<0, 0>>, <<10, 0>>, <<0, 10>> >>),
    Poly(<< <<0, 0>>, <<10, 0>>, <<14, 6>>, <<4, 6>> >>),
    Poly(<< <<5, 0>>, <<10, 5>>, <<5, 10>>, <<0, 5>> >>),
    Poly(<< <<0, 0>>, <<10, 0>>, <<10, 6>>, <<5, 10>>, <<0, 6>> >>),
    Poly(<< <<0, 0>>, <<10, 0>>, <<10, 5>>, <<5, 10>>, <<0, 10>> >>) }
\* rectilinear outlines beyond the rectangle and the L: the u-shaped house,
\* a T, and boxes with a vertex in the middle of the top edge, and in the
\* middle of the top and the right edge
RoofRectilinear ==
  { houseVertices("u-shaped", I(0), I(0)),
    Poly(<< <<0, 0>>, <<12, 0>>, <<12, 4>>, <<8, 4>>, <<8, 10>>, <<4, 10>>,
            <<4, 4>>, <<0, 4>> >>),
    Poly(<< <<0, 0>>, <<5, 0>>, <<10, 0>>, <<10, 10>>, <<0, 10>> >>),
    Poly(<< <<0, 0>>, <<5, 0>>, <<10, 0>>, <<10, 5>>, <<10, 10>>, <<0, 10>> >>) }
\* a cross, a staircase of three steps and an S
RoofStepped ==
  { Poly(<< <<4, 0>>, <<8, 0>>, <<8, 3>>, <<12, 3>>, <<12, 7>>, <<8, 7>>,
            <<8, 10>>, <<4, 10>>, <<4, 7>>, <<0, 7>>, <<0, 3>>, <<4, 3>> >>),
    Poly(<< <<0, 0>>, <<3, 0>>, <<3, 2>>, <<6, 2>>, <<6, 5>>, <<9, 5>>,
            <<9, 9>>, <<0, 9>> >>),
    Poly(<< <<0, 0>>, <<8, 0>>, <<8, 3>>, <<3, 3>>, <<3, 5>>, <<12, 5>>,
            <<12, 9>>, <<5, 9>>, <<5, 7>>, <<0, 7>> >>) }
\* a 10 x 10 box with a notch 0.005 wide and 5 deep cut into one edge
RoofNotched ==
  { [i \in 1..8 |->
       << Pt(I(0), I(0)), Pt(I(10), I(0)), Pt(I(10), I(10)),
          Pt(R(1001, 200), I(10)), Pt(R(1001, 200), I(5)), Pt(I(5), I(5)),
          Pt(I(5), I(10)), Pt(I(0), I(10)) >>[i]] }
\* what a line and an unfinished outline hold
RoofOpen ==
  { Poly(<< <<0, 0>>, <<10, 0>> >>), Poly(<< <<0, 0>>, <<10, 0>>, <<10, 10>> >>) }

RoofShapes ==
  { [type |-> ty, vertices |-> ws] :
      ty \in {"rectangle", "polygon"},
      ws \in UNION { Windings(vs) :
                       vs \in RoofRectangles \cup RoofLShapes \cup RoofSlanted
                              \cup RoofRectilinear \cup RoofStepped
                              \cup RoofNotched
                              \cup RoofOpen } }
  \cup { [type |-> ty, vertices |-> vs] :
           ty \in {"line", "freehand"}, vs \in RoofRectangles \cup RoofOpen }

RoofInit ==
  /\ EditorIs(EditorInitial)
  /\ \E shape \in RoofShapes :
       probe = [op |-> "input", shape |-> shape]

DetectRoofSections ==
  /\ probe.op = "input"
  /\ probe' = [op |-> "detectRoofSections", shape |-> probe.shape,
               sections |-> detectRoofSections(probe.shape),
               area |-> polygonArea(probe.shape.vertices)]
  /\ UNCHANGED editorVars

RoofNext == DetectRoofSections
SpecRoof == RoofInit /\ [][RoofNext]_vars

\* the sections of a closed shape have been taken
RoofDetected == probe.op = "detectRoofSections"
RoofClosed == probe.shape.type \in {"rectangle", "polygon"}

\* every edge runs along an axis
AxisParallel(vs) ==
  \A i \in 1..Len(vs) :
    LET w == vs[(i % Len(vs)) + 1]
    IN  vs[i].x = w.x \/ vs[i].y = w.y
\* every edge runs along an axis and every vertex is a corner: horizontal
\* and vertical edges of non-zero length alternate
CornersOnly(vs) ==
  \A i \in 1..Len(vs) :
    LET v == vs[(i % Len(vs)) + 1]
        w == vs[((i + 1) % Len(vs)) + 1]
    IN  \/ vs[i].y = v.y /\ vs[i].x # v.x /\ v.x = w.x /\ v.y # w.y
        \/ vs[i].x = v.x /\ vs[i].y # v.y /\ v.y = w.y /\ v.x # w.x

\* C15: a closed shape whose 4 vertices form an axis-aligned rectangle,
\* from any starting corner in either winding, has exactly one roof
\* section, whose bounds are the shape's bounding box
C15_RectangleOneSection ==
  (RoofDetected /\ RoofClosed /\ Len(probe.shape.vertices) = 4
     /\ CornersOnly(probe.shape.vertices)) =>
    /\ Len(probe.sections) = 1
    /\ probe.sections[1].bounds = getBounds(probe.shape.vertices)

\* the 10 x 5 box started at its south-east corner and wound the other way
C15_Witness ==
  /\ RoofDetected /\ RoofClosed
  /\ probe.shape.vertices = Poly(<< <<12, 8>>, <<12, 3>>, <<2, 3>>, <<2, 8>> >>)
  /\ Len(probe.sections) = 1
  /\ probe.sections[1].bounds = [min |-> Pt(I(2), I(3)), max |-> Pt(I(12), I(8))]

RECURSIVE SectionArea(_)
\* the sum of width * height over the sections
SectionArea(sections) ==
  IF sections = <<>> THEN I(0)
  ELSE Add(Mul(Head(sections).width, Head(sections).height), SectionArea(Tail(sections)))

BoundingBoxOnly(sections, vs) ==
  /\ Len(sections) = 1
  /\ sections[1].bounds = getBounds(vs)

\* C17: a closed shape of 3 or more vertices with an edge off the axes has
\* exactly one roof section, the bounding box of its vertices; and no
\* sections are returned only for a shape that is not closed or has fewer
\* than 3 vertices
C17_SlantedOneSection ==
  RoofDetected =>
    /\ (RoofClosed /\ Len(probe.shape.vertices) >= 3
          /\ ~AxisParallel(probe.shape.vertices))
         => BoundingBoxOnly(probe.sections, probe.shape.vertices)
    /\ probe.sections = <<>>
         => (~RoofClosed \/ Len(probe.shape.vertices) < 3)

\* two sections that share a full edge and whose other edges line up: the
\* two could be one rectangle
Mergeable(a, b) ==
  \/ /\ a.bounds.min.y = b.bounds.min.y /\ a.bounds.max.y = b.bounds.max.y
     /\ (a.bounds.max.x = b.bounds.min.x \/ a.bounds.min.x = b.bounds.max.x)
  \/ /\ a.bounds.min.x = b.bounds.min.x /\ a.bounds.max.x = b.bounds.max.x
     /\ (a.bounds.max.y = b.bounds.min.y \/ a.bounds.min.y = b.bounds.max.y)

\* C18: among the roof sections of a closed rectilinear shape of 4 or more
\* vertices, collinear vertices allowed, no two could still be merged into
\* one rectangle
C18_MergedToCompletion ==
  (RoofDetected /\ RoofClosed /\ Len(probe.shape.vertices) >= 4
     /\ AxisParallel(probe.shape.vertices)) =>
    \A i, j \in 1..Len(probe.sections) :
       i # j => ~Mergeable(probe.sections[i], probe.sections[j])


(***************************************************************************)
(* SpecSaving: a session of edits and explicit saves with the save         *)
(* pipeline running: the clock, the auto-save timeout, the requests on     *)
(* their way, the server and the responses                                 *)
(***************************************************************************)
MaxSaveEvents == 2
SavingPresets == {[width |-> I(50), height |-> I(90)]}

SavingCreatePreset == CreatePreset(SavingPresets, MaxSaveEvents)
SavingNextStep     == NextStep(MaxSaveEvents)
SavingReset        == Reset(MaxSaveEvents)
SavingSave         == Save(MaxSaveEvents)

SavingNext == \/ SavingCreatePreset \/ SavingNextStep \/ SavingReset
              \/ SavingSave
              \/ Tick \/ TimeoutFires \/ Serve \/ RequestFails \/ Settle
SpecSaving == EditorInit /\ [][SavingNext]_vars

\* the updates issued for the page's project, by their numbers
UpdatesIssued ==
  {n \in 1..Len(issued) : issued[n].method = "PATCH" /\ issued[n].id = projectId}
\* every update issued has been stored and answered, and none is to come
UpdatesCompleted ==
  /\ projectId # NONE /\ UpdatesIssued # {}
  /\ timeouts = {} /\ requests = {} /\ responses = {}
  /\ \A n \in UpdatesIssued : issued[n].outcome = "ok"
\* what the store holds of the page's project
StoredUpdates == updatesOf(projects[projectId])
\* the update issued last
LatestUpdate ==
  issued[CHOOSE n \in UpdatesIssued : \A m \in UpdatesIssued : m <= n].body

\* C19: once every update issued, by the auto-save or by Save, has been
\* stored and answered, the stored project holds the content of the update
\* issued last, whatever the order the store handled them in
C19_LaterSaveWins ==
  UpdatesCompleted => StoredUpdates = LatestUpdate


(***************************************************************************)
(* SpecAutoSave: edits and explicit saves with the auto-save running.  The *)
(* clock goes on while a timeout waits and the browser runs a timeout that *)
(* is due, so both steps are weakly fair; the user may stop at any time    *)
(* and presses Save only once the project is created.  The server creates  *)
(* the project the page asked for on mount and is slow with the rest: the  *)
(* updates stay in flight                                                  *)
(***************************************************************************)
MaxAutoSaveEvents == 3
AutoSavePresets == {[width |-> I(50), height |-> I(90)]}

AutoSaveCreatePreset == CreatePreset(AutoSavePresets, MaxAutoSaveEvents)
AutoSaveNextStep     == NextStep(MaxAutoSaveEvents)
AutoSaveReset        == Reset(MaxAutoSaveEvents)
AutoSaveSave         == projectId # NONE /\ Save(MaxAutoSaveEvents)

AutoSaveServe        == issued[1].outcome = "pending" /\ Serve

AutoSaveNext == \/ AutoSaveCreatePreset \/ AutoSaveNextStep \/ AutoSaveReset
                \/ AutoSaveSave
                \/ Tick \/ TimeoutFires \/ AutoSaveServe \/ Settle
SpecAutoSave == /\ EditorInit /\ [][AutoSaveNext]_vars
                /\ WF_vars(Tick) /\ WF_vars(TimeoutFires)

\* the ids of the timeouts pending
PendingIds(pending) == {t.id : t \in pending}
\* a step that changes shapes, viewTransform or currentStep leaves none of
\* the timeouts that were pending
ChangeCancels ==
  updatesOf(Cur)' # updatesOf(Cur)
    => PendingIds(timeouts) \cap PendingIds(timeouts') = {}
\* every update the auto-save issued left after a full idle period
IssuedWhenIdle ==
  \A n \in 1..Len(issued) :
    issued[n].by = "auto" => issued[n].idle >= SaveDelay
\* the requests the auto-save issued, by their numbers
AutoSavesIssued == {n \in 1..Len(issued) : issued[n].by = "auto"}
\* no timeout waits and the last update the auto-save issued carries the
\* page's project id and its present shapes, viewTransform and currentStep
AutoSaved ==
  /\ timeouts = {} /\ AutoSavesIssued # {}
  /\ LET last == issued[CHOOSE n \in AutoSavesIssued :
                          \A m \in AutoSavesIssued : m <= n]
     IN  last.id = projectId /\ last.body = updatesOf(Cur)

\* C20: at most one save timeout is pending, a change to shapes,
\* viewTransform or currentStep cancels the pending one, the auto-save
\* issues no update before a full idle period has passed since the last
\* change, and with the project created an update carrying the latest
\* shapes, viewTransform and currentStep is eventually issued
C20_AutoSaveDebounced ==
  /\ [](Cardinality(timeouts) <= 1)
  /\ [][ChangeCancels]_vars
  /\ []IssuedWhenIdle
  /\ (projectId # NONE) ~> AutoSaved

\* the plot was made, Save was pressed half way through the idle period,
\* the step was changed before the auto-save had issued anything, and the
\* one update the auto-save then issued carries the later step
C20_Witness ==
  /\ AutoSaved /\ lastEvent.type = "next" /\ nEvents = 3
  /\ Cardinality(AutoSavesIssued) = 1
  /\ \E n \in 1..Len(issued) :
       /\ issued[n].by = "save" /\ issued[n].idle = TickMs
       /\ issued[n].body.shapes # <<>>
       /\ issued[n].body.currentStep # currentStep


(***************************************************************************)
(* coordinate-math.ts: polyline simplification.  A distance is kept as its *)
(* square: the code only compares distances with each other and with      *)
(* epsilon >= 0, and squares of non-negative numbers order the same way    *)
(***************************************************************************)
perpendicularDistance(point, lineStart, lineEnd) ==
  LET dx == Sub(lineEnd.x, lineStart.x)
      dy == Sub(lineEnd.y, lineStart.y)
      num == MathAbs(Sub(Add(Sub(Mul(dy, point.x), Mul(dx, point.y)),
                             Mul(lineEnd.x, lineStart.y)),
                         Mul(lineEnd.y, lineStart.x)))
  IN  IF dx = I(0) /\ dy = I(0) THEN HypotSq(distance(point, lineStart))
      ELSE Div(Mul(num, num), Add(Mul(dx, dx), Mul(dy, dy)))

\* the loop of simplifyPolyline from the point of 0-based index i on: the
\* greatest distance so far and the index it was found at
RECURSIVE farthestFrom(_, _, _, _)
farthestFrom(points, i, maxDistance, maxIndex) ==
  IF i >= Len(points) - 1 THEN [maxDistance |-> maxDistance, maxIndex |-> maxIndex]
  ELSE LET dist == perpendicularDistance(points[i + 1], points[1], points[Len(points)])
       IN  IF Gt(dist, maxDistance) THEN farthestFrom(points, i + 1, dist, i)
           ELSE farthestFrom(points, i + 1, maxDistance, maxIndex)

\* a simplification that gives up the last point of a longer list
simplifyPolyline_LastDropped(points, epsilon) ==
  IF Len(points) <= 2 THEN points ELSE SubSeq(points, 1, Len(points) - 1)

RECURSIVE simplifyPolyline(_, _)
simplifyPolyline(points, epsilon) ==
  IF Len(points) <= 2 THEN points
  ELSE LET far == farthestFrom(points, 1, I(0), 0)
       IN  IF Gt(far.maxDistance, Mul(epsilon, epsilon))
           THEN LET left  == simplifyPolyline(SubSeq(points, 1, far.maxIndex + 1), epsilon)
                    right == simplifyPolyline(SubSeq(points, far.maxIndex + 1, Len(points)), epsilon)
                IN  SubSeq(left, 1, Len(left) - 1) \o right
           ELSE <<points[1], points[Len(points)]>>

(***************************************************************************)
(* SpecSimplify: simplifyPolyline applied to the point lists of up to      *)
(* MaxSimplifyPoints points of a small grid, and again to its result.      *)
(* Each point is the object it is in the program: it carries its place i   *)
(* in the input, which the function hands through                          *)
(***************************************************************************)
MaxSimplifyPoints == 4
SimplifyGrid == {Pt(I(x), I(y)) : x \in 0..2, y \in 0..1}
SimplifyEpsilons == {I(0), R(1, 2), I(1), I(2)}
SimplifyInputs ==
  UNION {[1..n -> SimplifyGrid] : n \in 0..MaxSimplifyPoints}
Placed(points) ==
  [i \in 1..Len(points) |-> [x |-> points[i].x, y |-> points[i].y, i |-> i]]

SimplifyInit ==
  /\ EditorIs(EditorInitial)
  /\ \E points \in SimplifyInputs, epsilon \in SimplifyEpsilons :
       probe = [op |-> "input", points |-> Placed(points), epsilon |-> epsilon]

SimplifyPolyline ==
  /\ probe.op = "input"
  /\ LET once == simplifyPolyline(probe.points, probe.epsilon)
     IN  probe' = [op |-> "simplifyPolyline", points |-> probe.points,
                   epsilon |-> probe.epsilon, result |-> once,
                   again |-> simplifyPolyline(once, probe.epsilon)]
  /\ UNCHANGED editorVars

SimplifyNext == SimplifyPolyline
SpecSimplify == SimplifyInit /\ [][SimplifyNext]_vars

Simplified == probe.op = "simplifyPolyline"

\* C21: simplifying the result of a simplification with the same epsilon
\* gives that result again
C21_SimplifyIdempotent ==
  Simplified => probe.again = probe.result

\* a zigzag of four points of which the simplification with epsilon 1/2
\* drops one and keeps three
C21_Witness ==
  /\ Simplified /\ Len(probe.points) = 4 /\ Len(probe.result) = 3
  /\ probe.epsilon = R(1, 2)

\* the places of the points kept, and of a dropped point's nearest kept
\* neighbours
Kept == {probe.result[k].i : k \in 1..Len(probe.result)}
KeptBefore(i) == CHOOSE a \in Kept : a < i /\ \A b \in Kept : b < i => b <= a
KeptAfter(i)  == CHOOSE a \in Kept : a > i /\ \A b \in Kept : b > i => a <= b

\* C22: a list of at most 2 points is returned as it is, and every point
\* dropped from a longer one is within epsilon of the segment between the
\* nearest points kept before and after it
C22_DroppedWithinEpsilon ==
  Simplified =>
    IF Len(probe.points) <= 2 THEN probe.result = probe.points
    ELSE \A i \in 1..Len(probe.points) :
           i \notin Kept =>
             HypotLe(distanceToSegment(probe.points[i],
                                       probe.points[KeptBefore(i)],
                                       probe.points[KeptAfter(i)]),
                     probe.epsilon)


(***************************************************************************)
(* The view controls: Floorplan.tsx handleZoomIn and handleZoomOut,        *)
(* FloorplanCanvas.tsx handleZoomToFit and the resize listener             *)
(***************************************************************************)
handleZoomIn(s) ==
  [s EXCEPT !.viewTransform.zoom = MathMin2(Mul(@, R(12, 10)), I(5))]

handleZoomOut(s) ==
  [s EXCEPT !.viewTransform.zoom = MathMax2(Div(@, R(12, 10)), R(1, 10))]

handleZoomToFit(s) ==
  LET ppf == pixelsPerFoot(DEFAULT_EDITING_DPI)
      sheetWidthPx == Mul(A2_WIDTH_FT, ppf)
      sheetHeightPx == Mul(A2_HEIGHT_FT, ppf)
      zoomX == Div(Mul(s.canvasSize.width, R(9, 10)), sheetWidthPx)
      zoomY == Div(Mul(s.canvasSize.height, R(9, 10)), sheetHeightPx)
  IN  [s EXCEPT !.viewTransform =
                   [panX |-> I(0), panY |-> I(0),
                    zoom |-> MinOf(<<zoomX, zoomY, I(1)>>)]]

\* updateSize with the container's bounding rectangle
updateSize(s, rect) ==
  [s EXCEPT !.canvasSize = [width |-> rect.width, height |-> rect.height]]

ZoomIn(limit) ==
  /\ nEvents < limit
  /\ Handled(handleZoomIn(Fresh), [type |-> "zoomIn"])

ZoomOut(limit) ==
  /\ nEvents < limit
  /\ Handled(handleZoomOut(Fresh), [type |-> "zoomOut"])

ZoomToFit(limit) ==
  /\ nEvents < limit
  /\ Handled(handleZoomToFit(Fresh), [type |-> "zoomToFit", canvasSize |-> canvasSize])

\* the window is resized
WindowResize(rects, limit) ==
  /\ nEvents < limit
  /\ \E rect \in rects :
       Handled(updateSize(Fresh, rect), [type |-> "resize", rect |-> rect])

(***************************************************************************)
(* SpecZoom: zooming, fitting, panning with the pan tool and resizing the  *)
(* window, down to a narrow and to a hidden canvas.  The pointer is used   *)
(* at the zoom levels up to one step from 1, where the exact arithmetic of *)
(* its world position stays within 32 bits                                 *)
(***************************************************************************)
MaxZoomEvents == 5
ZoomRects == {[width |-> I(1025), height |-> I(768)],
              [width |-> I(120), height |-> I(600)],
              [width |-> I(0), height |-> I(0)]}
ZoomPoints == {Pt(I(400), I(300)), Pt(I(430), I(280))}

ZoomZoomIn       == ZoomIn(MaxZoomEvents)
ZoomZoomOut      == ZoomOut(MaxZoomEvents)
ZoomZoomToFit    == ZoomToFit(MaxZoomEvents)
ZoomWindowResize == WindowResize(ZoomRects, MaxZoomEvents)
ZoomToolChange   == ToolChange({"pan"}, MaxZoomEvents)
ZoomNearOne      == viewTransform.zoom \in {R(5, 6), I(1), R(6, 5)}
ZoomMouseDown    == ZoomNearOne /\ MouseDown(ZoomPoints, {FALSE}, {FALSE}, MaxZoomEvents)
ZoomMouseMove    == ZoomNearOne /\ MouseMove(ZoomPoints, {FALSE}, {FALSE}, MaxZoomEvents)
ZoomMouseUp      == ZoomNearOne /\ MouseUp(MaxZoomEvents)

ZoomNext == \/ ZoomZoomIn \/ ZoomZoomOut \/ ZoomZoomToFit \/ ZoomWindowResize
            \/ ZoomToolChange \/ ZoomMouseDown \/ ZoomMouseMove \/ ZoomMouseUp
SpecZoom == EditorInit /\ [][ZoomNext]_vars

\* C23: the zoom is strictly positive and not below the floor 0.1 of
\* zoom-out, whatever was zoomed, fitted, panned and resized
C23_ZoomAboveFloor ==
  Gt(viewTransform.zoom, I(0)) /\ Ge(viewTransform.zoom, R(1, 10))


(***************************************************************************)
(* door-renderer.ts: where a door is drawn.  Each drawing function is the  *)
(* canvas points it draws at: the origin drawDoorSkin and drawDoorHandles  *)
(* translate to, and the two ends of the line drawDoorLine strokes         *)
(***************************************************************************)
\* the module's own worldToCanvas (lines 4-23)
doorWorldToCanvas(point, vt, dpi, canvasWidth, canvasHeight) ==
  LET centerX == Div(canvasWidth, I(2))
      centerY == Div(canvasHeight, I(2))
      scaledX == Mul(point.x, vt.zoom)
      scaledY == Mul(point.y, vt.zoom)
  IN  Pt(Add(Add(scaledX, centerX), vt.panX),
         Add(Add(scaledY, centerY), vt.panY))

drawDoorSkin(door, vt, size) ==
  doorWorldToCanvas(door.position, vt, DEFAULT_EDITING_DPI,
                    size.width, size.height)

drawDoorHandles(door, vt, size) ==
  doorWorldToCanvas(door.position, vt, DEFAULT_EDITING_DPI,
                    size.width, size.height)

\* NULL when the wall segment has no length and nothing is drawn
drawDoorLine(door, shape, vt, size) ==
  LET v1 == shape.vertices[door.wallSegmentIndex + 1]
      v2 == shape.vertices[((door.wallSegmentIndex + 1) % Len(shape.vertices)) + 1]
      dx == Sub(v2.x, v1.x)
      dy == Sub(v2.y, v1.y)
      length == MathSqrt(Add(Mul(dx, dx), Mul(dy, dy)))
      unitX == Div(dx, length)
      unitY == Div(dy, length)
      halfWidth == Div(door.width, I(2))
      start == Pt(Sub(door.position.x, Mul(unitX, halfWidth)),
                  Sub(door.position.y, Mul(unitY, halfWidth)))
      end == Pt(Add(door.position.x, Mul(unitX, halfWidth)),
                Add(door.position.y, Mul(unitY, halfWidth)))
  IN  IF length = I(0) THEN NULL
      ELSE [start |-> doorWorldToCanvas(start, vt, DEFAULT_EDITING_DPI,
                                        size.width, size.height),
            end |-> doorWorldToCanvas(end, vt, DEFAULT_EDITING_DPI,
                                      size.width, size.height),
            worldStart |-> start, worldEnd |-> end]

(***************************************************************************)
(* SpecRender: the door drawing functions applied to a door on the north   *)
(* or the east wall of a 10 x 10 house, under bounded views                *)
(***************************************************************************)
RenderHouse ==
  [id |-> "house", type |-> "rectangle", layer |-> "house", rotation |-> I(0),
   vertices |-> <<Pt(I(90), I(130)), Pt(I(100), I(130)),
                  Pt(I(100), I(140)), Pt(I(90), I(140))>>]
RenderDoors ==
  {[id |-> "door", type |-> "single", width |-> I(3), wallShapeId |-> "house",
    wallSegmentIndex |-> 0, rotation |-> I(0), position |-> Pt(I(95), I(130))],
   [id |-> "door", type |-> "double", width |-> I(4), wallShapeId |-> "house",
    wallSegmentIndex |-> 0, rotation |-> I(0), position |-> Pt(I(92), I(130))],
   [id |-> "door", type |-> "single", width |-> I(3), wallShapeId |-> "house",
    wallSegmentIndex |-> 1, rotation |-> I(90), position |-> Pt(I(100), I(136))]}
RenderZooms == {R(1, 2), I(1), R(6, 5), I(5)}
RenderPans  == {I(-30), I(0), I(17)}
RenderSizes == {[width |-> I(800), height |-> I(600)],
                [width |-> I(1025), height |-> I(768)]}

RenderInit ==
  /\ EditorIs(EditorInitial)
  /\ \E door \in RenderDoors, z \in RenderZooms, px \in RenderPans,
        py \in RenderPans, sz \in RenderSizes :
       probe = [op |-> "input", door |-> door, shape |-> RenderHouse,
                vt |-> [panX |-> px, panY |-> py, zoom |-> z], size |-> sz]

\* a drawing function's canvas points next to the world points they stand for
drawn(op, at, world) ==
  [op |-> op, door |-> probe.door, shape |-> probe.shape,
   vt |-> probe.vt, size |-> probe.size, at |-> at, world |-> world]

DrawDoorSkin ==
  /\ probe.op = "input"
  /\ probe' = drawn("drawDoorSkin",
                    <<drawDoorSkin(probe.door, probe.vt, probe.size)>>,
                    <<probe.door.position>>)
  /\ UNCHANGED editorVars

DrawDoorHandles ==
  /\ probe.op = "input"
  /\ probe' = drawn("drawDoorHandles",
                    <<drawDoorHandles(probe.door, probe.vt, probe.size)>>,
                    <<probe.door.position>>)
  /\ UNCHANGED editorVars

DrawDoorLine ==
  /\ probe.op = "input"
  /\ LET line == drawDoorLine(probe.door, probe.shape, probe.vt, probe.size)
     IN  probe' = drawn("drawDoorLine", <<line.start, line.end>>,
                       <<line.worldStart, line.worldEnd>>)
  /\ UNCHANGED editorVars

RenderNext == DrawDoorSkin \/ DrawDoorHandles \/ DrawDoorLine
SpecRender == RenderInit /\ [][RenderNext]_vars

\* C24: every canvas point a door drawing function draws at is the canvas
\* point worldToCanvas of the coordinate engine, which places the shapes,
\* gives for the same world point
C24_DoorDrawnWhereShapesAre ==
  probe.op \in {"drawDoorSkin", "drawDoorHandles", "drawDoorLine"} =>
    \A k \in 1..Len(probe.at) :
      probe.at[k] = worldToCanvas(probe.world[k], probe.vt, DEFAULT_EDITING_DPI,
                                  probe.size.width, probe.size.height)


(***************************************************************************)
(* SpecEdge: the preset plot dragged by its east edge handle and by its    *)
(* south-east corner handle to two places, with Shift or Alt held or not   *)
(***************************************************************************)
MaxEdgeEvents == 5
EdgePresets == {[width |-> I(40), height |-> I(60)]}
EdgePoints ==
  { atWorld(Pt(Add(SheetCenter.x, I(20)), SheetCenter.y)),
    atWorld(Pt(Add(SheetCenter.x, I(20)), Add(SheetCenter.y, I(30)))),
    atWorld(Pt(Add(SheetCenter.x, I(26)), Add(SheetCenter.y, I(10)))),
    atWorld(Pt(Add(SheetCenter.x, I(15)), Add(SheetCenter.y, I(33)))) }

EdgeCreatePreset == CreatePreset(EdgePresets, MaxEdgeEvents)
EdgeMouseDown    == MouseDown(EdgePoints, {FALSE}, {FALSE}, MaxEdgeEvents)
EdgeMouseMove    == MouseMove(EdgePoints, BOOLEAN, BOOLEAN, MaxEdgeEvents)
EdgeMouseUp      == MouseUp(MaxEdgeEvents)

EdgeNext == \/ EdgeCreatePreset \/ EdgeMouseDown \/ EdgeMouseMove \/ EdgeMouseUp
SpecEdge == EditorInit /\ [][EdgeNext]_vars

EdgeHandles == {"n", "e", "s", "w", "nw", "ne", "se", "sw"}
\* a step that starts an edge or corner drag copies the shape's vertices
\* and the pointer's world position into the drag state
DragStartSnapshots ==
  (lastEvent'.type = "mouseDown" /\ dragState' # dragState
     /\ dragState' # NULL /\ dragState'.handle \in EdgeHandles)
    => /\ dragState'.originalVertices = find(shapes, dragState'.shapeId).vertices
       /\ dragState'.startPoint = pointerWorld(Cur, lastEvent'.canvasPoint)
\* the pointer moves of the drag leave the copy as it is
SnapshotKept ==
  (dragState # NULL /\ lastEvent'.type = "mouseMove") => dragState' = dragState
\* after a pointer move of an edge or corner drag the shape's vertices are
\* the handle transform of the drag-start copy for the pointer's position
MovedOnceFromSnapshot ==
  (\E h \in EdgeHandles : DragMoved(h)) =>
    Dragged.vertices =
      improvedTransformVertices(dragState.originalVertices, dragState.handle,
                                dragState.startPoint, mousePosition,
                                lastEvent.shiftKey, lastEvent.altKey,
                                Dragged).vertices

\* C25: an edge or corner drag keeps the vertices of the drag's start, and
\* after every pointer move the shape's vertices are the handle transform
\* applied once to them with the latest pointer position, whatever the
\* moves before
C25_DragFromSnapshot ==
  /\ [][DragStartSnapshots]_vars
  /\ [][SnapshotKept]_vars
  /\ []MovedOnceFromSnapshot

\* the second pointer move of a drag of the south-east corner, to another
\* place than the first
C25_Witness ==
  /\ DragMoved("se") /\ nEvents = 4
  /\ Dragged.vertices # dragState.originalVertices
  /\ mousePosition = Pt(Add(SheetCenter.x, I(15)), Add(SheetCenter.y, I(33)))
  /\ Dragged.vertices[3] = mousePosition


(***************************************************************************)
(* SpecUndo: a polygon drawn point by point, with or without the preset    *)
(* plot selected, and the Backspace, Escape and Enter keys                 *)
(***************************************************************************)
MaxUndoEvents == 5
UndoPresets == {[width |-> I(40), height |-> I(60)]}
UndoPoints ==
  { atWorld(Pt(I(90), I(130))), atWorld(Pt(I(100), I(140))),
    atWorld(Pt(I(110), I(130))) }

UndoCreatePreset == CreatePreset(UndoPresets, MaxUndoEvents)
UndoToolChange   == ToolChange({"polygon"}, MaxUndoEvents)
UndoMouseDown    == MouseDown(UndoPoints, {FALSE}, {FALSE}, MaxUndoEvents)
UndoKeyDown      == KeyDown({"Backspace", "Escape", "Enter"}, {FALSE}, MaxUndoEvents)

UndoNext == \/ UndoCreatePreset \/ UndoToolChange \/ UndoMouseDown \/ UndoKeyDown
SpecUndo == EditorInit /\ [][UndoNext]_vars

\* Backspace pressed while a polygon with more than one placed point is
\* being drawn
BackspaceWhileDrawing ==
  /\ isDrawing /\ activeTool = "polygon" /\ Len(currentPoints) > 1
  /\ nEvents' = nEvents + 1
  /\ lastEvent'.type = "keyDown" /\ lastEvent'.key = "Backspace"

\* C26: Backspace pressed while a polygon with more than one placed point
\* is being drawn removes the last placed point only and leaves the list of
\* shapes as it is, whether a shape is selected or not
C26_BackspaceUndoesPointOnly ==
  [][BackspaceWhileDrawing =>
       /\ currentPoints' = SubSeq(currentPoints, 1, Len(currentPoints) - 1)
       /\ isDrawing'
       /\ shapes' = shapes]_vars


(***************************************************************************)
(* SpecTools: shapes drawn with the line, freehand and polygon tools while *)
(* the tool is changed from the toolbar and by the number keys             *)
(***************************************************************************)
MaxToolEvents == 6
ToolPoints ==
  { atWorld(Pt(I(90), I(130))), atWorld(Pt(I(100), I(140))) }

ToolsToolChange == ToolChange({"freehand", "polygon"}, MaxToolEvents)
ToolsKeyDown    == KeyDown({"2", "5"}, {FALSE}, MaxToolEvents)
ToolsMouseDown  == MouseDown(ToolPoints, {FALSE}, {FALSE}, MaxToolEvents)
ToolsMouseMove  == MouseMove(ToolPoints, {FALSE}, {FALSE}, MaxToolEvents)
ToolsMouseUp    == MouseUp(MaxToolEvents)

ToolsNext == \/ ToolsToolChange \/ ToolsKeyDown
             \/ ToolsMouseDown \/ ToolsMouseMove \/ ToolsMouseUp
SpecTools == EditorInit /\ [][ToolsNext]_vars

\* every shape of type line has two vertices
LinesHaveTwoVertices ==
  \A i \in DOMAIN shapes :
    shapes[i].type = "line" => Len(shapes[i].vertices) = 2
\* a step that adds a drawn shape whose points were all placed with one
\* tool gives it the type of that tool
DrawnWithPlacingTool ==
  (Len(shapes') = Len(shapes) + 1 /\ isDrawing)
    => \A tool \in {"line", "rectangle", "polygon", "freehand"} :
         placedWith = {tool} => shapes'[Len(shapes')].type = tool

\* C27: whatever the tool changes, pointer events and key events, every
\* shape of type line has exactly two vertices, and every drawn shape has
\* the type of the tool with which its points were placed
C27_DrawnShapesWellTyped ==
  /\ []LinesHaveTwoVertices
  /\ [][DrawnWithPlacingTool]_vars


(***************************************************************************)
(* Selection, over the runs of SpecOrphan: presets, a house, a door        *)
(* placed and clicked, deletions                                           *)
(***************************************************************************)
\* C28: at most one of selectedShapeId and selectedDoorId is set, whatever
\* the clicks, created shapes and deletions
C28_SelectionExclusive == selectedShapeId = NONE \/ selectedDoorId = NONE


(***************************************************************************)
(* SpecWizard: the wizard walked with Next, Previous and the step          *)
(* indicator over a preset plot, while the auto-save sends the updates and *)
(* the server answers them                                                 *)
(***************************************************************************)
MaxWizardEvents == 4
WizardPresets == {[width |-> I(50), height |-> I(90)]}

WizardCreatePreset == CreatePreset(WizardPresets, MaxWizardEvents)
WizardNextStep     == NextStep(MaxWizardEvents)
WizardPreviousStep == PreviousStep(MaxWizardEvents)
WizardStepClick    == StepClick(MaxWizardEvents)

WizardNext == \/ WizardCreatePreset \/ WizardNextStep \/ WizardPreviousStep
              \/ WizardStepClick
              \/ Tick \/ TimeoutFires \/ Serve \/ Settle
SpecWizard == EditorInit /\ [][WizardNext]_vars

\* every update the page has sent passes the server's validation
UpdatesAccepted ==
  \A n \in 1..Len(issued) :
    issued[n].method = "PATCH" => parse(issued[n].body)

\* C29: currentStep is always a member of the schema's WizardStep enum, and
\* the currentStep of every update the auto-save sends is accepted by the
\* validation of the project update
C29_StepInSchema == currentStep \in WizardStep /\ UpdatesAccepted


(***************************************************************************)
(* The sections as a dissection of the outline, over the runs of SpecRoof  *)
(***************************************************************************)
\* the pairs of neighbours among the numbers of set cs: no number of cs
\* lies between the two
Neighbours(cs) ==
  { <<a, b>> \in cs \X cs : Lt(a, b) /\ ~\E c \in cs : Lt(a, c) /\ Lt(c, b) }
Half(a, b) == Div(Add(a, b), I(2))
\* a point off the lines through the vertices lies inside the rectilinear
\* outline vs: an odd number of its vertical edges pass to the right of it
InsideRectilinear(p, vs) ==
  Cardinality({ i \in 1..Len(vs) :
                  LET v == vs[i]
                      w == vs[(i % Len(vs)) + 1]
                  IN  /\ v.x = w.x /\ Gt(v.x, p.x)
                      /\ Lt(MathMin2(v.y, w.y), p.y)
                      /\ Lt(p.y, MathMax2(v.y, w.y)) }) % 2 = 1
\* the centres of the cells that the lines through the vertices of vs cut
\* the box b into
CellCentres(b, vs) ==
  LET xs == {c \in {vs[i].x : i \in 1..Len(vs)} \cup {b.min.x, b.max.x} :
               Le(b.min.x, c) /\ Le(c, b.max.x)}
      ys == {c \in {vs[i].y : i \in 1..Len(vs)} \cup {b.min.y, b.max.y} :
               Le(b.min.y, c) /\ Le(c, b.max.y)}
  IN  { Pt(Half(x[1], x[2]), Half(y[1], y[2])) :
          x \in Neighbours(xs), y \in Neighbours(ys) }
\* the box b lies inside the rectilinear outline vs
BoxInside(b, vs) ==
  /\ Lt(b.min.x, b.max.x) /\ Lt(b.min.y, b.max.y)
  /\ \A p \in CellCentres(b, vs) : InsideRectilinear(p, vs)
\* the interiors of the boxes a and b meet
BoxesOverlap(a, b) ==
  /\ Lt(a.min.x, b.max.x) /\ Lt(b.min.x, a.max.x)
  /\ Lt(a.min.y, b.max.y) /\ Lt(b.min.y, a.max.y)

\* the sections of a rectilinear outline have been taken
RectilinearDetected ==
  /\ RoofDetected /\ RoofClosed /\ Len(probe.shape.vertices) >= 4
  /\ AxisParallel(probe.shape.vertices)

\* the sections are boxes of the outline with no interior point in common
\* whose areas add up to the outline's
Dissected ==
  /\ \A i, j \in 1..Len(probe.sections) :
       i # j => ~BoxesOverlap(probe.sections[i].bounds, probe.sections[j].bounds)
  /\ \A i \in 1..Len(probe.sections) :
       /\ BoxInside(probe.sections[i].bounds, probe.shape.vertices)
       /\ probe.sections[i].width =
            Sub(probe.sections[i].bounds.max.x, probe.sections[i].bounds.min.x)
       /\ probe.sections[i].height =
            Sub(probe.sections[i].bounds.max.y, probe.sections[i].bounds.min.y)
  /\ SectionArea(probe.sections) = probe.area

\* no two different x-coordinates and no two different y-coordinates of vs
\* are less than 0.01 apart
CoordinatesApart(vs) ==
  \A i, j \in 1..Len(vs) :
    /\ vs[i].x # vs[j].x => ~within001(vs[i].x, vs[j].x)
    /\ vs[i].y # vs[j].y => ~within001(vs[i].y, vs[j].y)

\* C30: the sections of a simple rectilinear polygon have pairwise disjoint
\* interiors, each lies inside the polygon, and their areas add up to
\* polygonArea of the polygon's vertices
C30_SectionsDissectPolygon == RectilinearDetected => Dissected

\* C30, for the polygons Math.abs(a - b) < 0.01 tells the coordinates of
\* apart: the sections of a simple rectilinear polygon whose different x-
\* and different y-coordinates are 0.01 or more apart have pairwise
\* disjoint interiors, each lies inside the polygon, and their areas add up
\* to polygonArea of the polygon's vertices
C30_SectionsDissectApart ==
  (RectilinearDetected /\ CoordinatesApart(probe.shape.vertices)) => Dissected

\* the u-shaped house outline: three sections of 300 square feet together
C30_Witness ==
  /\ RectilinearDetected /\ CoordinatesApart(probe.shape.vertices)
  /\ probe.shape.vertices = houseVertices("u-shaped", I(0), I(0))
  /\ Len(probe.sections) = 3
  /\ Dissected
====
